---- MODULE Spec2Model ----
(***************************************************************************)
(* Model of the discovery-and-forwarding engine of the DDS/Zenoh bridge    *)
(* (zenoh-plugin-dds/src/dds_mgt.rs): the discovery callback on_data, the  *)
(* discovery event mailbox, and the forwarding readers and writers.        *)
(***************************************************************************)
EXTENDS Integers, Sequences, FiniteSets, TLC

\* ------------------------------------------------------------------ bounds

\* Samples the environment presents to the builtin readers in one run.
MaxPresented == 3
\* Capacity of the discovery mailbox.
ChanCap == 1
\* How far the initial backlog of SpecBatch may exceed one batch budget.
MaxExtra == 1
\* Values a dds_entity_t can take, so that a deleted entity's value is reused.
MaxEnt == 3
\* Native entities created in one run.
MaxCreated == 4
\* Data samples that arrive while routes are created and deleted.
MaxArrivals == 1
\* Data samples that arrive at the reader of SpecDrain.
MaxDrain == 3

\* ------------------------------------------------- constants of the program

MAX_SAMPLES == 32

DiscoveryType == {"Participant", "Publication", "Subscription"}
EndpointType == {"Publication", "Subscription"}

DDS_IST_ALIVE == "ALIVE"
InstanceStates == {"ALIVE", "NOT_ALIVE_DISPOSED", "NOT_ALIVE_NO_WRITERS"}

\* The bridge's own participant: its instance handle and the first byte of its GUID.
OwnParticipant == [ih |-> 11, guid0 |-> 1]
OtherIh == OwnParticipant.ih + 1

\* ---------------------------------------------------------- bytes and text

\* A 16-byte key (dds_builtintopic_guid) whose bytes 0, 14 and 15 are given and
\* whose other bytes are zero, kept as those three bytes.
Key(b0, b14, b15) == <<b0, b14, b15>>

\* The 16 bytes key.v of a key.
KeyBytes(key) ==
    [i \in 1..16 |-> IF i = 1 THEN key[1] ELSE IF i = 15 THEN key[2]
                      ELSE IF i = 16 THEN key[3] ELSE 0]

OwnGuid == Key(OwnParticipant.guid0, 0, 0)

HexDigits == <<"0", "1", "2", "3", "4", "5", "6", "7", "8", "9", "a", "b", "c", "d", "e", "f">>

\* hex::encode: two lower-case hex digits per byte.
HexEncode(bytes) ==
    [i \in 1..(2 * Len(bytes)) |->
        IF i % 2 = 1 THEN HexDigits[(bytes[(i + 1) \div 2] \div 16) + 1]
        ELSE HexDigits[(bytes[i \div 2] % 16) + 1]]

IsCont(c) == c \in 128..191

\* CStr::to_str: whether the bytes from position i on are well-formed UTF-8.
RECURSIVE Utf8From(_, _)
Utf8From(b, i) ==
    IF i > Len(b) THEN TRUE
    ELSE LET c == b[i] IN
         IF c < 128 THEN Utf8From(b, i + 1)
         ELSE IF c \in 194..223
              THEN i + 1 <= Len(b) /\ IsCont(b[i + 1]) /\ Utf8From(b, i + 2)
         ELSE IF c \in 224..239
              THEN /\ i + 2 <= Len(b)
                   /\ b[i + 1] \in (IF c = 224 THEN 160..191 ELSE IF c = 237 THEN 128..159 ELSE 128..191)
                   /\ IsCont(b[i + 2])
                   /\ Utf8From(b, i + 3)
         ELSE IF c \in 240..244
              THEN /\ i + 3 <= Len(b)
                   /\ b[i + 1] \in (IF c = 240 THEN 144..191 ELSE IF c = 244 THEN 128..143 ELSE 128..191)
                   /\ IsCont(b[i + 2])
                   /\ IsCont(b[i + 3])
                   /\ Utf8From(b, i + 4)
         ELSE FALSE

IsUtf8(b) == Utf8From(b, 1)

\* str::starts_with
StartsWith(s, prefix) == Len(s) >= Len(prefix) /\ SubSeq(s, 1, Len(prefix)) = prefix

\* "DCPS"
BuiltinPrefix == <<68, 67, 80, 83>>

\* Topic names: "rt/c", "DCPSTopic", "DCPS", "DCP", "rt/DCPS", "dcps", "r" 0xFF, "DCPS" 0xFF.
TopicChatter == <<114, 116, 47, 99>>
TopicBuiltin == <<68, 67, 80, 83, 84, 111, 112, 105, 99>>
TopicPrefixOnly == <<68, 67, 80, 83>>
TopicShort == <<68, 67, 80>>
TopicInner == <<114, 116, 47, 68, 67, 80, 83>>
TopicLower == <<100, 99, 112, 115>>
TopicBadUtf8 == <<114, 255>>
TopicBuiltinBadUtf8 == <<68, 67, 80, 83, 255>>
\* Type names: "Str", a two-byte character, a truncated two-byte character.
TypeString == <<83, 116, 114>>
TypeAccent == <<83, 195, 169>>
TypeBadUtf8 == <<83, 195>>

\* ------------------------------------------------------- discovery samples

QosA == [reliability |-> "RELIABLE", history |-> "KEEP_LAST_1"]

\* A sample of a builtin discovery topic with its sample info. A participant
\* sample uses only key, qos and instance_state.
Sample(pih, st, key, pkey, topic, type, ret, ptr) ==
    [participant_instance_handle |-> pih, instance_state |-> st, key |-> key,
     participant_key |-> pkey, topic_name |-> topic, type_name |-> type,
     ti_ret |-> ret, ti_ptr |-> ptr, qos |-> QosA]

\* Every combination of the attributes on_data reads of an endpoint sample.
EndpointSpace ==
    { Sample(pih, st, Key(2, b14, b15), Key(9, 0, 0), topic, type, ti[1], ti[2]) :
        pih \in {OwnParticipant.ih, OtherIh},
        st \in InstanceStates,
        b14 \in {0, 3},
        b15 \in {0, 2, 3, 4, 5},
        topic \in {TopicChatter, TopicBuiltin, TopicShort, TopicBadUtf8},
        type \in {TypeString, TypeBadUtf8},
        ti \in {<<0, "ptr">>, <<0, "null">>, <<-1, "null">>} }

ParticipantSpace ==
    { Sample(0, st, Key(b0, 0, b15), Key(0, 0, 0), <<>>, <<>>, 0, "null") :
        st \in InstanceStates, b0 \in {OwnParticipant.guid0, 2}, b15 \in {0, 3} }

SampleSpace(k) == IF k = "Participant" THEN ParticipantSpace ELSE EndpointSpace

Ep(pih, st, b15, topic, type) ==
    Sample(pih, st, Key(2, 0, b15), Key(9, 0, 0), topic, type, 0, "ptr")

\* The samples of a backlog: one per case on_data tells apart.
PublicationCases ==
    << Ep(OtherIh, "ALIVE", 0, TopicChatter, TypeString),
      Ep(OtherIh, "ALIVE", 3, TopicInner, TypeAccent),
      Ep(OtherIh, "NOT_ALIVE_NO_WRITERS", 4, TopicPrefixOnly, TypeString),
      Ep(OtherIh, "ALIVE", 0, TopicBuiltin, TypeString),
      Ep(OtherIh, "ALIVE", 0, TopicBadUtf8, TypeString),
      Ep(OwnParticipant.ih, "ALIVE", 0, TopicChatter, TypeString) >>

SubscriptionCases ==
    << Ep(OtherIh, "ALIVE", 4, TopicLower, TypeString),
      Ep(OtherIh, "NOT_ALIVE_DISPOSED", 0, TopicChatter, TypeString),
      Ep(OtherIh, "ALIVE", 0, TopicChatter, TypeBadUtf8) >>

Pp(st, b0) == Sample(0, st, Key(b0, 0, 0), Key(0, 0, 0), <<>>, <<>>, 0, "null")

ParticipantCases ==
    << Pp("ALIVE", 2), Pp("NOT_ALIVE_DISPOSED", 2), Pp("ALIVE", OwnParticipant.guid0) >>

CaseSeq(k) ==
    IF k = "Participant" THEN ParticipantCases
    ELSE IF k = "Publication" THEN PublicationCases ELSE SubscriptionCases

\* The samples that arrive in the concurrent runs: publications that are
\* discovered and undiscovered, a subscription that is filtered, a participant.
SampleCases(k) ==
    IF k = "Publication" THEN {PublicationCases[1], PublicationCases[2], PublicationCases[3]}
    ELSE IF k = "Subscription" THEN {SubscriptionCases[3]}
    ELSE {ParticipantCases[1]}

\* A backlog of n samples in a builtin reader: the cases of its type, in turn.
Backlog(k, n) == [i \in 1..n |-> CaseSeq(k)[((i - 1) % Len(CaseSeq(k))) + 1]]

\* ------------------------------------------------------------------ state

VARIABLES
    pending,     \* per discovery type: the samples its builtin reader holds
    cb,          \* per discovery type: the position of its on_data invocation
    chan,        \* the mailbox: the events sent and not yet received
    rxOpen,      \* whether the receiving end of the mailbox still exists
    last,        \* per discovery type: the sample on_data handled last, what it did with
                 \* it, and whether the mailbox was full or closed at that moment
    nPresented,  \* per discovery type: samples presented to its reader so far
    nExpected,   \* per discovery type: presented samples that no filter discards
    nEmitted,    \* per discovery type: calls of send_discovery_event so far
    backlog,     \* samples the builtin readers held when discovery started
    observe,     \* whether the run records taken and received
    taken,       \* per discovery type: the samples dds_take handed out, in order
    received,    \* the events the consumer received, in order
    descriptors, \* the type descriptors TypeInfo::new made, in order: what each
                 \* points to, who holds it, and how often it was freed
    ctx          \* per builtin reader: the context its listener was registered with,
                 \* who owns it now, and the loans the current invocation gave back

discVars == <<pending, cb, chan, rxOpen, last, nPresented, nExpected, nEmitted,
              backlog, observe, taken, received, descriptors, ctx>>

VARIABLES
    ents,        \* per dds_entity_t value: the native entity that holds it now, if any
    nextIh,      \* the instance handle the next native entity gets
    workers,     \* per forwarding reader created: its listener or periodic task
    result,      \* what the last create or delete operation returned
    panicked,    \* whether an operation has panicked
    nArrived     \* data samples that arrived at forwarding readers so far

fwdVars == <<ents, nextIh, workers, result, panicked, nArrived>>

vars == <<discVars, fwdVars>>

\* ----------------------------------------------------------------- on_data

NoEvent == [type |-> "None"]
NoTypeInfo == "None"

IsOwnEndpoint_AliveOnly(sample, dpih) ==
    sample.participant_instance_handle = dpih /\ sample.instance_state = DDS_IST_ALIVE

\* dds_mgt.rs:246: the endpoint was created by the bridge's own participant.
IsOwnEndpoint(sample, dpih) == sample.participant_instance_handle = dpih

\* dds_mgt.rs:338-344: the participant is the bridge's own.
IsOwnParticipant(sample, guid) == HexEncode(KeyBytes(sample.key)) = HexEncode(KeyBytes(guid))

IsBuiltinTopic_Exact(topic_name) == topic_name = BuiltinPrefix

\* dds_mgt.rs:261
IsBuiltinTopic(topic_name) == StartsWith(topic_name, BuiltinPrefix)

Keyless_Byte14(key) == KeyBytes(key)[15] = 3 \/ KeyBytes(key)[15] = 4

\* dds_mgt.rs:277 (key.v[15] is the 16th byte)
Keyless(key) == KeyBytes(key)[16] = 3 \/ KeyBytes(key)[16] = 4

TypeInfoOf_NoNullCheck(sample) == IF sample.ti_ret = 0 THEN "Some" ELSE NoTypeInfo

\* dds_mgt.rs:284-304: the duplicated type descriptor, if the lookup gave one.
TypeInfoOf(sample) ==
    IF sample.ti_ret = 0
    THEN (IF sample.ti_ptr = "null" THEN NoTypeInfo ELSE "Some")
    ELSE NoTypeInfo

\* dds_mgt.rs:307-316
DdsEntity(sample) ==
    [key |-> HexEncode(KeyBytes(sample.key)),
     participant_key |-> HexEncode(KeyBytes(sample.participant_key)),
     topic_name |-> sample.topic_name,
     type_name |-> sample.type_name,
     keyless |-> Keyless(sample.key),
     type_info |-> TypeInfoOf(sample),
     qos |-> sample.qos,
     routes |-> <<>>]

OnEndpointSample_NamesFirst(discovery_type, sample, dpih) ==
    IF IsOwnEndpoint(sample, dpih) THEN NoEvent
    ELSE IF ~IsUtf8(sample.topic_name) THEN NoEvent
    ELSE IF IsBuiltinTopic(sample.topic_name) THEN NoEvent
    ELSE IF ~IsUtf8(sample.type_name) THEN NoEvent
    ELSE IF sample.instance_state = DDS_IST_ALIVE
         THEN [type |-> "Discovered" \o discovery_type, entity |-> DdsEntity(sample)]
         ELSE [type |-> "Undiscovered" \o discovery_type, key |-> HexEncode(KeyBytes(sample.key))]

\* dds_mgt.rs:244-334: what on_data does with one endpoint sample.
OnEndpointSample(discovery_type, sample, dpih) ==
    IF IsOwnEndpoint(sample, dpih) THEN NoEvent
    ELSE IF sample.instance_state = DDS_IST_ALIVE
         THEN IF ~IsUtf8(sample.topic_name) THEN NoEvent
              ELSE IF IsBuiltinTopic(sample.topic_name) THEN NoEvent
              ELSE IF ~IsUtf8(sample.type_name) THEN NoEvent
              ELSE [type |-> "Discovered" \o discovery_type, entity |-> DdsEntity(sample)]
         ELSE [type |-> "Undiscovered" \o discovery_type, key |-> HexEncode(KeyBytes(sample.key))]

\* dds_mgt.rs:335-362: what on_data does with one participant sample.
OnParticipantSample(sample, guid) ==
    IF IsOwnParticipant(sample, guid) THEN NoEvent
    ELSE IF sample.instance_state = DDS_IST_ALIVE
         THEN [type |-> "DiscoveredParticipant",
               entity |-> [key |-> HexEncode(KeyBytes(sample.key)), qos |-> sample.qos]]
         ELSE [type |-> "UndiscoveredParticipant", key |-> HexEncode(KeyBytes(sample.key))]

OnSample(discovery_type, sample) ==
    IF discovery_type = "Participant"
    THEN OnParticipantSample(sample, OwnGuid)
    ELSE OnEndpointSample(discovery_type, sample, OwnParticipant.ih)

TrySend_Unbounded(queue, open, event) ==
    IF open THEN [ok |-> TRUE, queue |-> Append(queue, event)]
    ELSE [ok |-> FALSE, queue |-> queue]

\* flume's try_send on the mailbox: Ok and queued at the tail, or an error.
TrySend(queue, open, event) ==
    IF open /\ Len(queue) < ChanCap
    THEN [ok |-> TRUE, queue |-> Append(queue, event)]
    ELSE [ok |-> FALSE, queue |-> queue]

\* The event owns a type descriptor (Some(TypeInfo) in its entity).
CarriesTypeInfo(event) ==
    /\ "entity" \in DOMAIN event
    /\ "type_info" \in DOMAIN event.entity
    /\ event.entity.type_info # NoTypeInfo

TypeInfoNew_Alias(source) == [ptr |-> source, holder |-> "callback", frees |-> 0, source_frees |-> 0]

\* dds_mgt.rs:54-57: TypeInfo::new keeps a duplicate (ddsi_typeinfo_dup) of
\* the descriptor it is given, not the descriptor itself.
TypeInfoNew(source) == [ptr |-> "dup", holder |-> "callback", frees |-> 0, source_frees |-> 0]

\* dds_mgt.rs:60-66: Drop for TypeInfo frees what ptr points to: the
\* duplicate, or the descriptor it was made from when ptr is that one.
DropTypeInfo(d) ==
    IF d.ptr = "dup" THEN [d EXCEPT !.holder = "none", !.frees = @ + 1]
    ELSE [d EXCEPT !.holder = "none", !.source_frees = @ + 1]

\* The oldest descriptor that the given holder has.
FirstHeld(ds, holder) == CHOOSE i \in 1..Len(ds) :
    /\ ds[i].holder = holder
    /\ \A j \in 1..(i - 1) : ds[j].holder # holder

\* dds_mgt.rs:369-376: the send never waits; a failed send is logged and dropped.
SendDiscoveryEvent(queue, open, event) ==
    LET r == TrySend(queue, open, event) IN
    [queue |-> r.queue, sent |-> r.ok, error_logged |-> ~r.ok]

\* dds_mgt.rs:233-239: dds_take hands out at most max_samples of the pending samples.
TakeCount(queue, max_samples) == IF Len(queue) < max_samples THEN Len(queue) ELSE max_samples

Remainder_Lost(queue, n) == <<>>

\* dds_mgt.rs:233-239: the samples dds_take did not hand out stay in the reader.
Remainder(queue, n) == SubSeq(queue, n + 1, Len(queue))

NoSample == [instance_state |-> "None"]

NoLast == [sample |-> NoSample, event |-> NoEvent, sent |-> FALSE, error_logged |-> FALSE,
           refused |-> FALSE]

BatchSample_Reversed(batch, i) == batch[Len(batch) + 1 - i]

\* dds_mgt.rs:242-245, 336: the loop handles samples[i] for i = 0, 1, ..., n - 1.
BatchSample(batch, i) == batch[i]

Idle == [pc |-> "idle", batch |-> <<>>, i |-> 0, loans |-> 0, emitted |-> <<>>]

Continue_Break(c) == [c EXCEPT !.i = Len(c.batch) + 1]

\* dds_mgt.rs:248, 259, 267, 275, 340: continue goes on with the next sample.
Continue(c) == [c EXCEPT !.i = @ + 1]

\* dds_mgt.rs:380-382: the boxed pair run_discovery makes for one listener: a
\* discovery type and a sender of the mailbox (a clone of tx, or tx itself).
\* owner tells who holds the box: the listener as a raw pointer, or the
\* running callback as a Box.
Context(discovery_type) ==
    [discovery_type |-> discovery_type,
     sender |-> [channel |-> "tx", handle |-> discovery_type],
     owner |-> "listener", entered |-> FALSE, loan_returns |-> 0]

ListenerKind_Twice(topic) == IF topic = "Subscription" THEN "Publication" ELSE topic

\* dds_mgt.rs:380-409: the discovery type in the context of the listener that
\* is attached to the builtin reader of a topic (DCPSPublication,
\* DCPSSubscription, DCPSParticipant).
ListenerKind(topic) == topic

\* dds_mgt.rs:378-411: one listener per builtin reader, each with its own context.
RunDiscovery == [topic \in DiscoveryType |-> Context(ListenerKind(topic))]

\* dds_mgt.rs:220-222: Box::from_raw takes the context back from the raw
\* pointer; on a context that was freed this reads released memory, and the
\* discovery type it finds is any.
Reclaim(c) ==
    IF c.owner = "freed"
    THEN {[c EXCEPT !.discovery_type = d, !.owner = "callback"] : d \in DiscoveryType}
    ELSE {[c EXCEPT !.owner = "callback"]}

ReturnLoan_IfAny(c, n) == IF n > 0 THEN [c EXCEPT !.loan_returns = @ + 1] ELSE c

\* dds_mgt.rs:365: dds_return_loan, called whatever n the take returned.
ReturnLoan(c, n) == [c EXCEPT !.loan_returns = @ + 1]

HandBack_Drop(c) == [c EXCEPT !.owner = "freed"]

\* dds_mgt.rs:366: Box::into_raw gives the context back to the raw pointer
\* instead of dropping it.
HandBack(c) == [c EXCEPT !.owner = "listener"]

\* A presented sample that no filter of on_data discards.
ShouldEmit(k, s) ==
    IF k = "Participant" THEN s.key # OwnGuid
    ELSE /\ s.participant_instance_handle # OwnParticipant.ih
         /\ s.instance_state = DDS_IST_ALIVE =>
                /\ IsUtf8(s.topic_name)
                /\ ~StartsWith(s.topic_name, BuiltinPrefix)
                /\ IsUtf8(s.type_name)

\* The native middleware stores one more sample in the builtin reader of type k.
Present(k, s) ==
    /\ nPresented["Participant"] + nPresented["Publication"] + nPresented["Subscription"]
           < backlog + MaxPresented
    /\ pending' = [pending EXCEPT ![k] = Append(@, s)]
    /\ nPresented' = [nPresented EXCEPT ![k] = @ + 1]
    /\ nExpected' = [nExpected EXCEPT ![k] = @ + (IF ShouldEmit(k, s) THEN 1 ELSE 0)]
    /\ UNCHANGED <<cb, chan, rxOpen, last, nEmitted, backlog, observe,
                   taken, received, descriptors, ctx>>
    /\ UNCHANGED fwdVars

\* dds_mgt.rs:219-241: on_data is entered and takes its batch; a failed take
\* (n < 0) leaves the reader as it is and the loop runs zero times.
OnDataTake(k, takeOk) ==
    /\ cb[k].pc = "idle"
    /\ nPresented[k] > 0
    /\ \E btx \in Reclaim(ctx[k]) :
           ctx' = [ctx EXCEPT ![k] = [btx EXCEPT !.entered = TRUE, !.loan_returns = 0]]
    /\ LET n == IF takeOk THEN TakeCount(pending[k], MAX_SAMPLES) ELSE 0 IN
        /\ cb' = [cb EXCEPT ![k] = [pc |-> "loop", batch |-> SubSeq(pending[k], 1, n),
                                    i |-> 1, loans |-> n, emitted |-> <<>>]]
        /\ pending' = [pending EXCEPT ![k] = Remainder(@, n)]
        /\ taken' = IF observe THEN [taken EXCEPT ![k] = @ \o SubSeq(pending[k], 1, n)]
                     ELSE taken
    /\ UNCHANGED <<chan, rxOpen, last, nPresented, nExpected, nEmitted, backlog, observe,
                   received, descriptors>>
    /\ UNCHANGED fwdVars

\* dds_mgt.rs:242-364: one iteration of the loop over the batch.
OnDataSample(k) ==
    /\ cb[k].pc = "loop"
    /\ cb[k].i <= Len(cb[k].batch)
    /\ LET sample == BatchSample(cb[k].batch, cb[k].i)
           event == OnSample(ctx[k].discovery_type, sample)
           r == SendDiscoveryEvent(chan, rxOpen, event)
       IN  /\ cb' = [cb EXCEPT ![k] = IF event = NoEvent THEN Continue(@)
                                        ELSE [@ EXCEPT !.i = @ + 1,
                                                       !.emitted = Append(@, event)]]
           /\ IF event = NoEvent
              THEN /\ last' = [last EXCEPT ![k] = [sample |-> sample, event |-> NoEvent,
                                                   sent |-> FALSE, error_logged |-> FALSE,
                                                   refused |-> FALSE]]
                   /\ UNCHANGED <<chan, nEmitted, descriptors>>
              ELSE /\ chan' = r.queue
                   /\ descriptors' =
                         IF observe /\ CarriesTypeInfo(event)
                         THEN LET d == TypeInfoNew(sample.ti_ptr) IN
                              Append(descriptors, IF r.sent THEN [d EXCEPT !.holder = "mailbox"]
                                                  ELSE DropTypeInfo(d))
                         ELSE descriptors
                   /\ last' = [last EXCEPT ![k] = [sample |-> sample, event |-> event,
                                                   sent |-> r.sent,
                                                   error_logged |-> r.error_logged,
                                                   refused |-> ~rxOpen \/ Len(chan) >= ChanCap]]
                   /\ nEmitted' = [nEmitted EXCEPT ![k] = @ + 1]
    /\ UNCHANGED <<pending, rxOpen, nPresented, nExpected, backlog, observe, taken,
                   received, ctx>>
    /\ UNCHANGED fwdVars

\* dds_mgt.rs:365-367: the loans go back and the context is handed back.
OnDataReturn(k) ==
    /\ cb[k].pc = "loop"
    /\ cb[k].i > Len(cb[k].batch)
    /\ cb' = [cb EXCEPT ![k] = Idle]
    /\ ctx' = [ctx EXCEPT ![k] = HandBack(ReturnLoan(@, cb[k].loans))]
    /\ last' = [last EXCEPT ![k] = NoLast]
    /\ UNCHANGED <<pending, chan, rxOpen, nPresented, nExpected, nEmitted,
                   backlog, observe, taken, received, descriptors>>
    /\ UNCHANGED fwdVars

\* The consumer of the mailbox takes the oldest event.
Recv ==
    /\ rxOpen
    /\ chan # <<>>
    /\ chan' = Tail(chan)
    /\ received' = IF observe THEN Append(received, Head(chan)) ELSE received
    /\ descriptors' = IF observe /\ CarriesTypeInfo(Head(chan))
                      THEN [descriptors EXCEPT ![FirstHeld(descriptors, "mailbox")].holder =
                                                   "consumer"]
                      ELSE descriptors
    /\ UNCHANGED <<pending, cb, rxOpen, last, nPresented, nExpected, nEmitted,
                   backlog, observe, taken, ctx>>
    /\ UNCHANGED fwdVars

\* The consumer goes away: the mailbox is closed and what it held is dropped.
CloseReceiver ==
    /\ rxOpen
    /\ rxOpen' = FALSE
    /\ chan' = <<>>
    /\ descriptors' = [i \in 1..Len(descriptors) |->
                          IF descriptors[i].holder = "mailbox" THEN DropTypeInfo(descriptors[i])
                          ELSE descriptors[i]]
    /\ UNCHANGED <<pending, cb, last, nPresented, nExpected, nEmitted, backlog, observe,
                   taken, received, ctx>>
    /\ UNCHANGED fwdVars

\* The consumer destroys an entity it received: its type descriptor is dropped.
DropEntity(i) ==
    /\ descriptors[i].holder = "consumer"
    /\ descriptors' = [descriptors EXCEPT ![i] = DropTypeInfo(@)]
    /\ UNCHANGED <<pending, cb, chan, rxOpen, last, nPresented, nExpected, nEmitted,
                   backlog, observe, taken, received, ctx>>
    /\ UNCHANGED fwdVars

\* --------------------------------------------------- native DDS entities

\* The values a dds_entity_t of a live or deleted entity can have; a deleted
\* entity's value may be given to an entity created later.
Slots == 1..MaxEnt

\* Negative return codes of the native create calls: error, out of resources.
NativeErrors == {-1, -5}

FreeEntity == [kind |-> "free"]

\* A value whose entity was deleted and that no later entity has got yet.
DeletedEntity == [kind |-> "free", deleted |-> TRUE]

\* Readers keep the samples that arrived and were not taken yet.
NativeEntity(kind, ih, qos) == [kind |-> kind, ih |-> ih, qos |-> qos, queue |-> <<>>]

IsAlive(e) == e \in Slots /\ ents[e].kind # "free"

FreeSlots == {e \in Slots : ents[e].kind = "free"}

\* dds_strretcode: the text of a (positive) return code.
StrRetcode(code) ==
    CASE code = 1 -> "Error"
      [] code = 5 -> "Out Of Resources"
      [] OTHER -> "Unknown return code"

\* dds_get_instance_handle on an entity value.
GetInstanceHandle(e) ==
    IF IsAlive(e) THEN [rc |-> 0, handle |-> ents[e].ih] ELSE [rc |-> -3, handle |-> 0]

\* The outcomes of the native calls of one create operation: the value or the
\* error of topic and endpoint creation, of the descriptor lookup and of the wait.
NativeOutcomes ==
    [topic : Slots \cup NativeErrors, descriptor : {0} \cup NativeErrors,
     entity : Slots \cup NativeErrors, wait : {0, -10} \cup NativeErrors]

Possible(nat) ==
    /\ nat.topic \in Slots => nat.topic \in FreeSlots
    /\ nat.entity \in Slots => nat.entity \in FreeSlots /\ nat.entity # nat.topic

\* ------------------------------------------------------------ create_topic

HasNul(name) == \E i \in 1..Len(name) : name[i] = 0

\* CString::new(..).unwrap() of both names.
CStringsPanic(topic_name, type_name) == HasNul(topic_name) \/ HasNul(type_name)

Ok(value) == [ok |-> TRUE, value |-> value]
Err(msg, code) == [ok |-> FALSE, error |-> <<msg, StrRetcode(code)>>]

\* dds_mgt.rs:599: the timeout of dds_create_topic_descriptor, in nanoseconds.
DescriptorTimeout == 500000000

\* dds_mgt.rs:590-610: the native calls create_topic makes, in order, with
\* what each returns.
TopicCalls(type_info, keyless, nat) ==
    IF type_info = NoTypeInfo
    THEN <<[call |-> "cdds_create_blob_topic", keyless |-> keyless, ret |-> nat.topic]>>
    ELSE <<[call |-> "dds_create_topic_descriptor", timeout |-> DescriptorTimeout,
            ret |-> nat.descriptor]>>
         \o (IF nat.descriptor = 0
             THEN <<[call |-> "dds_create_topic", ret |-> nat.topic],
                    [call |-> "dds_delete_topic_descriptor"]>>
             ELSE <<>>)

TopicValue_DescriptorUnchecked(type_info, nat) == nat.topic

\* The value create_topic computes for `topic`: the blob topic, or the topic of
\* the resolved descriptor, or the error of the descriptor lookup.
TopicValue(type_info, nat) ==
    IF type_info = NoTypeInfo THEN nat.topic
    ELSE IF nat.descriptor = 0 THEN nat.topic ELSE nat.descriptor

create_topic_Unchecked(topic_name, type_name, type_info, keyless, nat) ==
    Ok(TopicValue(type_info, nat))

create_topic(topic_name, type_name, type_info, keyless, nat) ==
    LET topic == TopicValue(type_info, nat) IN
    IF topic < 0 THEN Err("Error creating DDS Topic: ", -topic) ELSE Ok(topic)

\* The entities after create_topic: the new topic, if one was created.
WithTopic(type_info, keyless, nat) ==
    LET topic == TopicValue(type_info, nat) IN
    IF topic < 0 THEN ents
    ELSE [ents EXCEPT ![topic] =
             NativeEntity("topic", nextIh, [blob |-> type_info = NoTypeInfo, keyless |-> keyless])]

\* ---------------------------------------------------------- data samples

Qos(reliability, history) == [reliability |-> reliability, history |-> history]
History(kind, depth) == [kind |-> kind, depth |-> depth]
NoHistory == [kind |-> "None"]
QosKeepAll == Qos("RELIABLE", History("KEEP_ALL", 0))

\* The representation header that starts every serialized buffer.
CdrHeader == <<0, 1, 0, 0>>

\* A serdata as dds_takecdr hands it out with its sample info: data is the
\* serialized buffer of a serdata without loan, sample_ptr the application
\* sample of a loan; owner is the instance handle of the reader it arrived at.
Serdata(valid_data, loan, from_sample, data, sample_ptr, instance) ==
    [valid_data |-> valid_data, loan |-> loan, from_sample |-> from_sample,
     data |-> data, sample_ptr |-> sample_ptr, instance |-> instance, owner |-> 0]

SdSerialized == Serdata(TRUE, "null", TRUE, CdrHeader \o <<7, 8>>, <<>>, 1)
SdOther == Serdata(TRUE, "null", TRUE, CdrHeader \o <<9>>, <<>>, 2)
SdShort == Serdata(TRUE, "null", TRUE, <<0, 1>>, <<>>, 1)
SdInvalid == Serdata(FALSE, "null", TRUE, CdrHeader, <<>>, 1)
SdLoan == Serdata(TRUE, "RAW_DATA", TRUE, <<>>, <<5, 6>>, 2)
SdLoanNoType == Serdata(TRUE, "RAW_DATA", FALSE, <<>>, <<5, 6>>, 1)
SdLoanOther == Serdata(TRUE, "UNINITIALIZED", TRUE, <<>>, <<5, 6>>, 2)

AllSerdata == {SdSerialized, SdOther, SdShort, SdInvalid, SdLoan, SdLoanNoType, SdLoanOther}

NoZp == [null |-> TRUE]
NoRaw == [null |-> TRUE]

\* ddsi_serdata_from_sample followed by ddsi_serdata_to_ser_ref of a loan.
FromSample(sample_ptr) == CdrHeader \o sample_ptr

DDSRawSampleCreate_NoLoanCheck(serdata) ==
    [ok |-> TRUE, raw |-> [data |-> IF serdata.loan = "null" THEN serdata.data
                                    ELSE CdrHeader \o serdata.sample_ptr]]

\* DDSRawSample::create. A created sample holds one reference (to_ser_ref).
DDSRawSampleCreate(serdata) ==
    IF serdata.loan = "null"
    THEN [ok |-> TRUE, raw |-> [data |-> serdata.data]]
    ELSE IF serdata.loan = "RAW_DATA"
         THEN IF serdata.from_sample
              THEN [ok |-> TRUE, raw |-> [data |-> FromSample(serdata.sample_ptr)]]
              ELSE [ok |-> FALSE, error |->
                     "Received sample from DDS contains a loan for which incomplete type information is held"]
         ELSE [ok |-> FALSE, error |->
                "Received sample from DDS contains a loan with an unexpected sample state"]

data_as_slice(raw) == raw.data

\* payload_as_slice: the slice [4..] of the data, which panics on a shorter buffer.
payload_as_slice(raw) ==
    IF Len(raw.data) < 4 THEN [panic |-> TRUE, slice |-> <<>>]
    ELSE [panic |-> FALSE, slice |-> SubSeq(raw.data, 5, Len(raw.data))]

\* From<DDSRawSample> for ZBytes: the bytes are copied and buf is dropped when
\* the conversion returns, which calls ddsi_serdata_to_ser_unref once.
IntoZBytes_Leak(raw) == [payload |-> data_as_slice(raw), released |-> 0]

IntoZBytes(raw) == [payload |-> data_as_slice(raw), released |-> 1]

\* KEEP_ALL: more samples than any run delivers.
KeepAll == MaxArrivals + MaxDrain + 1

\* The samples a reader keeps per instance: the history depth of its QoS.
Depth(qos) ==
    IF qos.history = NoHistory THEN 1
    ELSE IF qos.history.kind = "KEEP_LAST" THEN qos.history.depth ELSE KeepAll

RECURSIVE DropOldest(_, _)
DropOldest(queue, instance) ==
    IF queue = <<>> THEN <<>>
    ELSE IF Head(queue).instance = instance THEN Tail(queue)
         ELSE <<Head(queue)>> \o DropOldest(Tail(queue), instance)

CountInstance(queue, instance) ==
    Cardinality({i \in 1..Len(queue) : queue[i].instance = instance})

\* The reader's history cache after a sample arrived.
Store(queue, sd, depth) ==
    IF CountInstance(queue, sd.instance) >= depth
    THEN Append(DropOldest(queue, sd.instance), sd)
    ELSE Append(queue, sd)

\* ------------------------------------------------- forwarding operations

NoPeriod == [some |-> FALSE]
Period(ms) == [some |-> TRUE, period |-> ms]

NoResult == [op |-> "none"]

\* The listener argument or the periodic task of a forwarding reader; dds_ih
\* records the instance handle of the reader it was created for (0: none),
\* delivered the samples dds_takecdr handed to it and puts its publications.
Worker(mode, reader, z_key, dds_ih) ==
    [mode |-> mode, reader |-> reader, z_key |-> z_key,
     pc |-> IF mode = "periodic" THEN "start" ELSE "idle",
     original_handle |-> 0, zp |-> NoZp, raw |-> NoRaw, payload |-> <<>>,
     dds_ih |-> dds_ih, published |-> FALSE, constructed |-> 0, released |-> 0, attempts |-> 0,
     delivered |-> <<>>, puts |-> <<>>, warned |-> <<>>, unreffed |-> <<>>]

PeriodicQos_IfUnset(qos) ==
    IF qos.history = NoHistory THEN [qos EXCEPT !.history = History("KEEP_LAST", 1)] ELSE qos

\* qos.history = Some(History { kind: KEEP_LAST, depth: 1 })
PeriodicQos(qos) == [qos EXCEPT !.history = History("KEEP_LAST", 1)]

\* dds_mgt.rs:452-459 and 561-567: the warning of a sample that could not be
\* routed, with the zenoh key it was meant for.
Warning(z_key, error) == [level |-> "warn", key |-> z_key, msg |-> error]

\* dds_mgt.rs:446-450 and 556-559: let _ = ... .wait() drops the result of the
\* put, Ok or Err: nothing is logged for it.
PutLog(z_key, published) == <<>>

\* qos::DDS_100MS_DURATION, in milliseconds.
DDS_100MS_DURATION == 100

WaitForHistoricalData_Always(reader, nat) ==
    <<[reader |-> reader, max_wait |-> DDS_100MS_DURATION, res |-> nat.wait]>>

\* dds_mgt.rs:492-493: the calls of dds_reader_wait_for_historical_data the
\* event-driven branch makes for what dds_create_reader returned; nat.wait is
\* what the call returns (0, a timeout, another error).
WaitForHistoricalData(reader, nat) ==
    IF reader >= 0
    THEN <<[reader |-> reader, max_wait |-> DDS_100MS_DURATION, res |-> nat.wait]>>
    ELSE <<>>

\* The native QoS objects of one create operation that got as far as
\* to_qos_native: one is allocated (dds_mgt.rs:489, 518, 646), and
\* Qos::delete_qos_native is called in the event-driven branch (line 491) and
\* for a writer (line 648); the periodic branch has no such call.
QosNative(branch) ==
    [allocated |-> 1, deleted |-> IF branch = "periodic" THEN 0 ELSE 1]

\* create_topic failed: the operation returned before to_qos_native.
NoQosNative == [allocated |-> 0, deleted |-> 0]

\* Whether the event-driven branch accepts what dds_create_reader returned.
ReaderCreated(reader) == reader >= 0

Panic ==
    /\ panicked' = TRUE
    /\ UNCHANGED <<ents, nextIh, workers, result, nArrived>>

\* create_forwarding_dds_reader, dds_mgt.rs:467-578, up to the spawn of the task.
CreateForwardingDdsReader(topic_name, type_name, type_info, keyless, qos, read_period, nat) ==
    /\ UNCHANGED discVars
    /\ ~panicked
    /\ nextIh + 1 <= MaxCreated
    /\ Possible(nat)
    /\ IF CStringsPanic(topic_name, type_name) THEN Panic
       ELSE LET t == create_topic(topic_name, type_name, type_info, keyless, nat)
                reader == nat.entity
                rqos == IF read_period.some THEN PeriodicQos(qos) ELSE qos
                withReader == [WithTopic(type_info, keyless, nat) EXCEPT
                                  ![reader] = NativeEntity("reader", nextIh + 1, rqos)]
                z_key == Len(workers) + 1
                call == [op |-> "create_forwarding_dds_reader", periodic |-> read_period.some,
                         qos |-> qos, type_info |-> type_info, keyless |-> keyless, topic |-> t,
                         topic_calls |-> TopicCalls(type_info, keyless, nat)]
            IN  /\ UNCHANGED <<panicked, nArrived>>
                /\ IF ~t.ok
                   THEN /\ result' = call @@ t @@ [native |-> TopicValue(type_info, nat),
                                                       waits |-> <<>>, qos_native |-> NoQosNative]
                        /\ UNCHANGED <<ents, nextIh, workers>>
                   ELSE /\ ents' = IF reader >= 0 THEN withReader
                                   ELSE WithTopic(type_info, keyless, nat)
                        /\ nextIh' = IF reader >= 0 THEN nextIh + 2 ELSE nextIh + 1
                        /\ IF ~read_period.some
                           THEN IF ReaderCreated(reader)
                                THEN /\ workers' = Append(workers,
                                            Worker("listener", reader, z_key, nextIh + 1))
                                     /\ result' = call @@ Ok(reader) @@
                                            [native |-> reader, wait_error_logged |-> nat.wait < 0,
                                             waits |-> WaitForHistoricalData(reader, nat),
                                             qos_native |-> QosNative("listener")]
                                ELSE /\ workers' = workers
                                     /\ result' = call @@ Err("Error creating DDS Reader: ", -reader)
                                                       @@ [native |-> reader,
                                                           waits |-> WaitForHistoricalData(reader, nat),
                                                           qos_native |-> QosNative("listener")]
                           ELSE /\ workers' = Append(workers,
                                       Worker("periodic", reader, z_key,
                                              IF reader >= 0 THEN nextIh + 1 ELSE 0))
                                /\ result' = call @@ Ok(reader) @@
                                       [native |-> reader, waits |-> <<>>,
                                        qos_native |-> QosNative("periodic")]

WriterQos_AsRequested(qos) == qos

\* force RELIABLE QoS for Writers: BEST_EFFORT becomes the default.
WriterQos(qos) ==
    IF qos.reliability = "BEST_EFFORT" THEN [qos EXCEPT !.reliability = "None"] ELSE qos

\* create_forwarding_dds_writer, dds_mgt.rs:624-660.
CreateForwardingDdsWriter(topic_name, type_name, type_info, keyless, qos, nat) ==
    /\ UNCHANGED discVars
    /\ ~panicked
    /\ nextIh + 1 <= MaxCreated
    /\ Possible(nat)
    /\ IF CStringsPanic(topic_name, type_name) THEN Panic
       ELSE LET t == create_topic(topic_name, type_name, type_info, keyless, nat)
                writer == nat.entity
                call == [op |-> "create_forwarding_dds_writer", qos |-> qos,
                         type_info |-> type_info, keyless |-> keyless, topic |-> t,
                         topic_calls |-> TopicCalls(type_info, keyless, nat)]
            IN  /\ UNCHANGED <<panicked, nArrived, workers>>
                /\ IF ~t.ok
                   THEN /\ result' = call @@ t @@ [native |-> TopicValue(type_info, nat),
                                                       qos_native |-> NoQosNative]
                        /\ UNCHANGED <<ents, nextIh>>
                   ELSE IF writer >= 0
                        THEN /\ ents' = [WithTopic(type_info, keyless, nat) EXCEPT
                                            ![writer] = NativeEntity("writer", nextIh + 1, WriterQos(qos))]
                             /\ nextIh' = nextIh + 2
                             /\ result' = call @@ Ok(writer) @@
                                    [native |-> writer, qos_native |-> QosNative("writer")]
                        ELSE /\ ents' = WithTopic(type_info, keyless, nat)
                             /\ nextIh' = nextIh + 1
                             /\ result' = call @@ Err("Error creating DDS Writer: ", -writer)
                                               @@ [native |-> writer,
                                                   qos_native |-> QosNative("writer")]

\* No listener invocation of entity e is in progress (dds_delete waits for it).
ListenerIdle(e) ==
    \A w \in 1..Len(workers) :
        (workers[w].mode = "listener" /\ workers[w].reader = e
            /\ ents[e].ih = workers[w].dds_ih) => workers[w].pc = "idle"

\* match r { 0 | DDS_RETCODE_ALREADY_DELETED => Ok(()), e => Err(..) }
DeleteResult(r) ==
    IF r \in {"OK", "ALREADY_DELETED"} THEN [ok |-> TRUE]
    ELSE [ok |-> FALSE, error |-> <<"Error deleting DDS entity - retcode=", r>>]

\* delete_dds_entity, dds_mgt.rs:662-670; r is what dds_delete returns: success
\* for a live entity, otherwise one of the codes it has for a value without entity.
DeleteDdsEntity(entity, r) ==
    /\ UNCHANGED discVars
    /\ ~panicked
    /\ IF IsAlive(entity) THEN r = "OK" /\ ListenerIdle(entity)
       ELSE r \in {"ALREADY_DELETED", "BAD_PARAMETER"}
    /\ ents' = IF IsAlive(entity) THEN [ents EXCEPT ![entity] = DeletedEntity] ELSE ents
    /\ result' = [op |-> "delete_dds_entity", entity |-> entity, retcode |-> r] @@ DeleteResult(r)
    /\ UNCHANGED <<nextIh, workers, panicked, nArrived>>

\* ------------------------------------------- listener and periodic task

SetWorker(w, fields) == workers' = [workers EXCEPT ![w] = fields @@ @]

\* A sample arrives at the forwarding reader e.
Arrive(e, sd) ==
    /\ UNCHANGED discVars
    /\ ~panicked
    /\ IsAlive(e)
    /\ ents[e].kind = "reader"
    /\ ents' = [ents EXCEPT ![e].queue =
                   Store(@, [sd EXCEPT !.owner = ents[e].ih], Depth(ents[e].qos))]
    /\ nArrived' = nArrived + 1
    /\ UNCHANGED <<nextIh, workers, result, panicked>>

\* dds_mgt.rs:525-526: the task starts and records the instance handle.
TaskStart(w) ==
    /\ UNCHANGED discVars
    /\ ~panicked
    /\ workers[w].pc = "start"
    /\ SetWorker(w, [pc |-> "check",
                     original_handle |-> GetInstanceHandle(workers[w].reader).handle])
    /\ UNCHANGED <<ents, nextIh, result, panicked, nArrived>>

KeepsRunning_RcOnly(g, original_handle) == g.rc = 0

\* dds_mgt.rs:528-531: the lookup returned DDS_RETCODE_OK and the handle is
\* the one recorded; otherwise the loop ends.
KeepsRunning(g, original_handle) == g.rc = 0 /\ g.handle = original_handle

\* dds_mgt.rs:528-533: the condition of the outer loop, up to the sleep.
TaskCheck(w) ==
    /\ UNCHANGED discVars
    /\ ~panicked
    /\ workers[w].pc = "check"
    /\ LET g == GetInstanceHandle(workers[w].reader) IN
         SetWorker(w, [pc |-> IF KeepsRunning(g, workers[w].original_handle)
                              THEN "sleep" ELSE "done"])
    /\ UNCHANGED <<ents, nextIh, result, panicked, nArrived>>

\* dds_mgt.rs:533: the period has elapsed.
TaskWake(w) ==
    /\ UNCHANGED discVars
    /\ ~panicked
    /\ workers[w].pc = "sleep"
    /\ SetWorker(w, [pc |-> "take"])
    /\ UNCHANGED <<ents, nextIh, result, panicked, nArrived>>

\* The reader of a listener has data: data_forwarder_listener is called.
ListenerInvoke(w) ==
    /\ UNCHANGED discVars
    /\ ~panicked
    /\ workers[w].mode = "listener"
    /\ workers[w].pc = "idle"
    /\ IsAlive(workers[w].reader)
    /\ ents[workers[w].reader].ih = workers[w].dds_ih
    /\ ents[workers[w].reader].queue # <<>>
    /\ SetWorker(w, [pc |-> "take"])
    /\ UNCHANGED <<ents, nextIh, result, panicked, nArrived>>

ValidData_Always(zp) == TRUE

\* if si[0].valid_data
ValidData(zp) == zp.valid_data

\* dds_takecdr of one sample and, for valid data, DDSRawSample::create
\* (dds_mgt.rs:418-430 and 537-554).
Take(w) ==
    /\ UNCHANGED discVars
    /\ ~panicked
    /\ workers[w].pc = "take"
    /\ LET reader == workers[w].reader
           n == IF IsAlive(reader) /\ ents[reader].kind = "reader" /\ ents[reader].queue # <<>>
                THEN 1 ELSE 0
       IN  IF n > 0
           THEN LET zp == Head(ents[reader].queue)
                    r == DDSRawSampleCreate(zp)
                IN  /\ ents' = [ents EXCEPT ![reader].queue = Tail(@)]
                    /\ IF ValidData(zp) /\ r.ok
                       THEN SetWorker(w, [pc |-> "made", zp |-> zp, raw |-> r.raw,
                                          constructed |-> workers[w].constructed + 1,
                                          delivered |-> Append(workers[w].delivered, zp)])
                       ELSE SetWorker(w, [pc |-> "unref", zp |-> zp,
                                          delivered |-> Append(workers[w].delivered, zp),
                                          warned |-> IF ValidData(zp)
                                                     THEN Append(workers[w].warned,
                                                                 Warning(workers[w].z_key, r.error))
                                                     ELSE workers[w].warned])
           ELSE /\ SetWorker(w, [pc |-> IF workers[w].mode = "periodic" THEN "check" ELSE "idle"])
                /\ ents' = ents
    /\ UNCHANGED <<nextIh, result, panicked, nArrived>>

\* put(&key, raw_sample): the sample is converted into the payload
\* (dds_mgt.rs:213-217), which releases it.
Put(w) ==
    /\ UNCHANGED discVars
    /\ ~panicked
    /\ workers[w].pc = "made"
    /\ LET z == IntoZBytes(workers[w].raw) IN
         SetWorker(w, [pc |-> "put", raw |-> NoRaw, payload |-> z.payload,
                       released |-> workers[w].released + z.released])
    /\ UNCHANGED <<ents, nextIh, result, panicked, nArrived>>

\* .wait(): the publish attempt, whose result is discarded.
Publish(w, published) ==
    /\ UNCHANGED discVars
    /\ ~panicked
    /\ workers[w].pc = "put"
    /\ SetWorker(w, [pc |-> "unref", payload |-> <<>>, published |-> published,
                     attempts |-> workers[w].attempts + 1,
                     puts |-> Append(workers[w].puts,
                                     [key |-> workers[w].z_key, payload |-> workers[w].payload,
                                      ok |-> published]),
                     warned |-> workers[w].warned \o PutLog(workers[w].z_key, published)])
    /\ UNCHANGED <<ents, nextIh, result, panicked, nArrived>>

SerdataUnref_ValidOnly(log, zp) == IF zp.valid_data THEN Append(log, zp) ELSE log

\* ddsi_serdata_unref(zp): one reference of zp is given back; log lists the
\* references given back so far.
SerdataUnref(log, zp) == Append(log, zp)

\* ddsi_serdata_unref(zp), dds_mgt.rs:462 and 570.
Unref(w) ==
    /\ UNCHANGED discVars
    /\ ~panicked
    /\ workers[w].pc = "unref"
    /\ SetWorker(w, [pc |-> "take", zp |-> NoZp, published |-> FALSE,
                     unreffed |-> SerdataUnref(workers[w].unreffed, workers[w].zp)])
    /\ UNCHANGED <<ents, nextIh, result, panicked, nArrived>>

\* A user of the raw sample reads its payload (dds_mgt.rs:180-189).
PayloadAsSlice(w) ==
    /\ UNCHANGED discVars
    /\ ~panicked
    /\ workers[w].pc = "made"
    /\ panicked' = payload_as_slice(workers[w].raw).panic
    /\ UNCHANGED <<ents, nextIh, workers, result, nArrived>>

\* Nothing was created yet.
InitForwarding ==
    /\ ents = [e \in Slots |-> FreeEntity]
    /\ nextIh = 1
    /\ workers = <<>>
    /\ result = NoResult
    /\ panicked = FALSE
    /\ nArrived = 0

\* ---------------------------------------------------------- specifications

ByType(v) == [k \in DiscoveryType |-> v]

\* run_discovery has registered the three listeners; nothing was discovered yet.
InitDiscovery ==
    /\ pending = ByType(<<>>)
    /\ cb = ByType(Idle)
    /\ chan = <<>>
    /\ rxOpen = TRUE
    /\ last = ByType(NoLast)
    /\ nPresented = ByType(0)
    /\ nExpected = ByType(0)
    /\ nEmitted = ByType(0)
    /\ taken = ByType(<<>>)
    /\ received = <<>>
    /\ ctx = RunDiscovery
    /\ descriptors = <<>>
    /\ InitForwarding

Init ==
    /\ InitDiscovery
    /\ backlog = 0
    /\ observe = TRUE

Next ==
    \/ \E k \in DiscoveryType : \E s \in SampleCases(k) : Present(k, s)
    \/ \E k \in DiscoveryType : \E takeOk \in BOOLEAN : OnDataTake(k, takeOk)
    \/ \E k \in DiscoveryType : OnDataSample(k)
    \/ \E k \in DiscoveryType : OnDataReturn(k)
    \/ Recv
    \/ CloseReceiver

Spec == Init /\ [][Next]_vars

RECURSIVE CountExpected(_, _)
CountExpected(k, samples) ==
    IF samples = <<>> THEN 0
    ELSE (IF ShouldEmit(k, Head(samples)) THEN 1 ELSE 0) + CountExpected(k, Tail(samples))

\* Discovery starts while the builtin reader of type k0 already holds samples.
InitBacklog(k0, samples) ==
    /\ pending = [k \in DiscoveryType |-> IF k = k0 THEN samples ELSE <<>>]
    /\ cb = ByType(Idle)
    /\ chan = <<>>
    /\ rxOpen = TRUE
    /\ last = ByType(NoLast)
    /\ nPresented = [k \in DiscoveryType |-> IF k = k0 THEN Len(samples) ELSE 0]
    /\ nExpected = [k \in DiscoveryType |-> IF k = k0 THEN CountExpected(k, samples) ELSE 0]
    /\ nEmitted = ByType(0)
    /\ taken = ByType(<<>>)
    /\ received = <<>>
    /\ ctx = RunDiscovery
    /\ descriptors = <<>>
    /\ InitForwarding
    /\ backlog = Len(samples)

\* One sample of any content, handled by the callback of its type.
InitSample ==
    /\ \E k \in DiscoveryType : \E s \in SampleSpace(k) : InitBacklog(k, <<s>>)
    /\ observe = TRUE

NextSample ==
    \/ \E i \in 1..Len(descriptors) : DropEntity(i)
    \/ \E k \in DiscoveryType : \E takeOk \in BOOLEAN : OnDataTake(k, takeOk)
    \/ \E k \in DiscoveryType : OnDataSample(k)
    \/ \E k \in DiscoveryType : OnDataReturn(k)
    \/ Recv
    \/ CloseReceiver

SpecSample == InitSample /\ [][NextSample]_vars

\* A backlog around the size of one batch budget, and the samples that follow.
InitBatch ==
    /\ \E k \in DiscoveryType : \E n \in MAX_SAMPLES..(MAX_SAMPLES + MaxExtra) :
           InitBacklog(k, Backlog(k, n))
    /\ observe = FALSE

\* The samples that arrive after the backlog go on with the cases in turn.
NextBatch ==
    \/ \E k \in {t \in DiscoveryType : nPresented[t] > 0} :
          Present(k, Backlog(k, nPresented[k] + 1)[nPresented[k] + 1])
    \/ \E k \in DiscoveryType : \E takeOk \in BOOLEAN : OnDataTake(k, takeOk)
    \/ \E k \in DiscoveryType : OnDataSample(k)
    \/ \E k \in DiscoveryType : OnDataReturn(k)
    \/ Recv
    \/ CloseReceiver

SpecBatch == InitBatch /\ [][NextBatch]_vars

\* ------------------------------------------------------ discovery claims

Handled(k) == last[k].sample # NoSample

EventKey(e) == IF "key" \in DOMAIN e THEN e.key ELSE e.entity.key

EventsOf(k) == {"Discovered" \o k, "Undiscovered" \o k}

\* C3: no event is ever sent for an endpoint sample whose
\* participant_instance_handle is the instance handle of the bridge's own
\* participant, nor for a participant sample whose key is the GUID of the
\* bridge's own participant, whatever the instance state of the sample.
C3_NoSelfEvent ==
    /\ \A k \in EndpointType :
          (Handled(k) /\ last[k].sample.participant_instance_handle = OwnParticipant.ih)
              => last[k].event = NoEvent
    /\ (Handled("Participant") /\ KeyBytes(last["Participant"].sample.key) = KeyBytes(OwnGuid))
          => last["Participant"].event = NoEvent
    /\ \A i \in 1..Len(chan) :
          chan[i].type \in EventsOf("Participant")
              => EventKey(chan[i]) # HexEncode(KeyBytes(OwnGuid))

\* A not-alive endpoint sample of the bridge's own participant was handled and
\* gave no event.
C3_Witness ==
    \E k \in EndpointType :
        /\ Handled(k)
        /\ last[k].sample.participant_instance_handle = OwnParticipant.ih
        /\ last[k].sample.instance_state # DDS_IST_ALIVE
        /\ last[k].event = NoEvent

\* C4 as claimed: an endpoint sample whose topic name begins with "DCPS" gives
\* no event of any kind, whatever its instance state.
C4_NoEventForBuiltinTopic ==
    \A k \in EndpointType :
        (Handled(k) /\ StartsWith(last[k].sample.topic_name, BuiltinPrefix))
            => last[k].event = NoEvent

\* C4 as amended: an ALIVE endpoint sample whose topic name begins with "DCPS"
\* gives no event of any kind; a sample in another instance state is not
\* filtered by its topic name: unless it is self-originated it gives the
\* Undiscovered event of its key.
C4_NoEventForAliveBuiltinTopic ==
    \A k \in EndpointType :
        /\ (/\ Handled(k)
            /\ last[k].sample.instance_state = DDS_IST_ALIVE
            /\ StartsWith(last[k].sample.topic_name, BuiltinPrefix))
               => last[k].event = NoEvent
        /\ (/\ Handled(k)
            /\ last[k].sample.instance_state # DDS_IST_ALIVE
            /\ last[k].sample.participant_instance_handle # OwnParticipant.ih)
               => last[k].event = [type |-> "Undiscovered" \o k,
                                   key |-> HexEncode(KeyBytes(last[k].sample.key))]

\* An ALIVE sample of another participant on a builtin topic was handled and
\* gave no event.
C4_Witness ==
    \E k \in EndpointType :
        /\ Handled(k)
        /\ last[k].sample.instance_state = DDS_IST_ALIVE
        /\ last[k].sample.participant_instance_handle # OwnParticipant.ih
        /\ last[k].sample.topic_name = TopicBuiltin
        /\ last[k].event = NoEvent

Unhandled(k) ==
    IF cb[k].pc = "loop" THEN SubSeq(cb[k].batch, cb[k].i, Len(cb[k].batch)) ELSE <<>>

\* C5: an invocation of on_data takes at most MAX_SAMPLES samples, what it
\* does not take stays in the reader, and no sample is lost: the events
\* emitted so far plus the events still owed for the samples not yet handled
\* are the presented samples that no filter discards; with the reader drained
\* and the callback returned, emitted = presented - filtered.
C5_NoSampleLost ==
    \A k \in DiscoveryType :
        /\ Len(cb[k].batch) <= MAX_SAMPLES
        /\ nExpected[k] = nEmitted[k] + CountExpected(k, Unhandled(k))
                              + CountExpected(k, pending[k])
        /\ (cb[k].pc = "idle" /\ pending[k] = <<>>) => nEmitted[k] = nExpected[k]

\* A reader that was presented more than MAX_SAMPLES samples is drained.
C5_Witness ==
    \E k \in DiscoveryType :
        /\ cb[k].pc = "idle"
        /\ pending[k] = <<>>
        /\ nPresented[k] > MAX_SAMPLES
        /\ nEmitted[k] = nExpected[k]
        /\ nEmitted[k] > 0
        /\ nEmitted[k] < nPresented[k]

C6_Bounded ==
    /\ Len(chan) <= ChanCap
    /\ \A k \in DiscoveryType :
          /\ cb[k].pc = "loop" => ENABLED (OnDataSample(k) \/ OnDataReturn(k))
          /\ last[k].event # NoEvent =>
                /\ last[k].sent = ~last[k].refused
                /\ last[k].error_logged = last[k].refused

C6_Dropped ==
    \A k \in DiscoveryType :
        (/\ cb[k].pc = "loop"
         /\ cb[k].i <= Len(cb[k].batch)
         /\ cb'[k].pc = "loop"
         /\ cb'[k].i = cb[k].i + 1
         /\ OnSample(k, cb[k].batch[cb[k].i]) # NoEvent
         /\ (~rxOpen \/ Len(chan) >= ChanCap))
            => /\ chan' = chan
               /\ last'[k].error_logged
               /\ ~last'[k].sent

\* C6: send_discovery_event never blocks the callback: the mailbox never holds
\* more than its bound, a callback in its loop can always take its next step,
\* and a send on a full or closed mailbox fails at once, is logged, leaves
\* the mailbox as it was and lets the callback go on to its next sample.
C6_SendNeverBlocks == []C6_Bounded /\ [][C6_Dropped]_vars

\* A send was refused by the full mailbox and the callback is past it.
C6_Witness ==
    \E k \in DiscoveryType :
        /\ cb[k].pc = "loop"
        /\ last[k].event # NoEvent
        /\ last[k].refused
        /\ rxOpen
        /\ Len(chan) = ChanCap
        /\ last[k].error_logged
        /\ \A i \in 1..Len(chan) : chan[i] # last[k].event

RECURSIVE IsSubseq(_, _)
IsSubseq(a, b) ==
    IF a = <<>> THEN TRUE
    ELSE IF b = <<>> THEN FALSE
    ELSE IF Head(a) = Head(b) THEN IsSubseq(Tail(a), Tail(b))
    ELSE IsSubseq(a, Tail(b))

OfType(events, k) == SelectSeq(events, LAMBDA e : e.type \in EventsOf(k))

\* The events of the samples a callback captured, in the order of capture.
RECURSIVE Captured(_, _)
Captured(k, samples) ==
    IF samples = <<>> THEN <<>>
    ELSE LET e == OnSample(k, Head(samples)) IN
         (IF e = NoEvent THEN <<>> ELSE <<e>>) \o Captured(k, Tail(samples))

C10_KeylessIffByte15 ==
    /\ \A k \in EndpointType :
          last[k].event.type = "Discovered" \o k
              => (last[k].event.entity.keyless
                    <=> KeyBytes(last[k].sample.key)[16] \in {3, 4})
    /\ \A i \in 1..Len(chan) :
          (chan[i].type \in {"DiscoveredPublication", "DiscoveredSubscription"})
              => (chan[i].entity.keyless
                    <=> SubSeq(chan[i].entity.key, 31, 32) \in {<<"0", "3">>, <<"0", "4">>})

\* A Discovered event in the mailbox whose entity is keyless: byte 15 of the key
\* is 4 and byte 14 is 0.
C10_Witness ==
    \E k \in EndpointType :
        /\ last[k].event.type = "Discovered" \o k
        /\ last[k].event.entity.keyless
        /\ KeyBytes(last[k].sample.key)[16] = 4
        /\ KeyBytes(last[k].sample.key)[15] = 0
        /\ Len(chan) = 1
        /\ chan[1] = last[k].event

\* ------------------------------------------------ forwarding specifications

TopicWithNul == <<99, 0, 104>>

InitFwd ==
    /\ InitDiscovery
    /\ backlog = 0
    /\ observe = FALSE

\* Native calls that succeed or fail with an error, without descriptor lookup.
PlainOutcomes == {nat \in NativeOutcomes : nat.descriptor = 0 /\ nat.wait = 0
                                            /\ nat.topic \in Slots /\ nat.entity # -5}

\* Routes are created and deleted while data flows.
NextFwd ==
    \/ \E read_period \in {NoPeriod, Period(100)} : \E nat \in PlainOutcomes :
          CreateForwardingDdsReader(TopicChatter, TypeString, NoTypeInfo, FALSE, QosKeepAll,
                                    read_period, nat)
    \/ \E e \in {x \in Slots : ents[x].kind = "reader"} : DeleteDdsEntity(e, "OK")
    \/ \E e \in Slots : nArrived < MaxArrivals /\ Arrive(e, SdSerialized)
    \/ \E w \in 1..Len(workers) : TaskStart(w)
    \/ \E w \in 1..Len(workers) : TaskCheck(w)
    \/ \E w \in 1..Len(workers) : TaskWake(w)
    \/ \E w \in 1..Len(workers) : ListenerInvoke(w)
    \/ \E w \in 1..Len(workers) : Take(w)
    \/ \E w \in 1..Len(workers) : Put(w)
    \/ \E w \in 1..Len(workers) : Publish(w, TRUE)
    \/ \E w \in 1..Len(workers) : Unref(w)

SpecFwd == InitFwd /\ [][NextFwd]_vars

\* One route of either mode is created; any kind of sample arrives and is forwarded.
NextDrain ==
    \/ \E read_period \in {NoPeriod, Period(100)} :
          /\ nextIh = 1
          /\ CreateForwardingDdsReader(TopicChatter, TypeString, NoTypeInfo, FALSE, QosKeepAll,
                 read_period, [topic |-> 1, descriptor |-> 0, entity |-> 2, wait |-> 0])
    \/ \E e \in Slots : \E sd \in AllSerdata : nArrived < MaxDrain /\ Arrive(e, sd)
    \/ \E w \in 1..Len(workers) : TaskStart(w)
    \/ \E w \in 1..Len(workers) : TaskCheck(w)
    \/ \E w \in 1..Len(workers) : TaskWake(w)
    \/ \E w \in 1..Len(workers) : ListenerInvoke(w)
    \/ \E w \in 1..Len(workers) : Take(w)
    \/ \E w \in 1..Len(workers) : Put(w)
    \/ \E w \in 1..Len(workers) : \E published \in BOOLEAN : Publish(w, published)
    \/ \E w \in 1..Len(workers) : Unref(w)
    \/ \E w \in 1..Len(workers) : PayloadAsSlice(w)

SpecDrain == InitFwd /\ [][NextDrain]_vars


\* The QoS a route can ask for.
QosSpace ==
    { Qos(reliability, history) :
        reliability \in {"None", "BEST_EFFORT", "RELIABLE"},
        history \in {NoHistory, History("KEEP_ALL", 0), History("KEEP_LAST", 5)} }

TypeWithNul == <<83, 0>>

\* The first operation on a participant creates a reader or a writer with any
\* input and any outcome of the native calls; entities are deleted; no data flows.
NextCreate ==
    \/ /\ result = NoResult
       /\ \E topic_name \in {TopicChatter, TopicWithNul} :
          \E type_name \in {TypeString, TypeWithNul} :
          \E type_info \in {NoTypeInfo, "ptr"} : \E keyless \in BOOLEAN : \E qos \in QosSpace :
          \E read_period \in {NoPeriod, Period(100)} : \E nat \in NativeOutcomes :
             CreateForwardingDdsReader(topic_name, type_name, type_info, keyless, qos,
                                       read_period, nat)
    \/ /\ result = NoResult
       /\ \E topic_name \in {TopicChatter, TopicWithNul} :
          \E type_name \in {TypeString, TypeWithNul} :
          \E type_info \in {NoTypeInfo, "ptr"} : \E keyless \in BOOLEAN : \E qos \in QosSpace :
          \E nat \in NativeOutcomes :
             CreateForwardingDdsWriter(topic_name, type_name, type_info, keyless, qos, nat)
    \/ \E e \in Slots : \E r \in {"OK", "ALREADY_DELETED", "BAD_PARAMETER"} :
          DeleteDdsEntity(e, r)
    \/ \E w \in 1..Len(workers) : TaskStart(w)
    \/ \E w \in 1..Len(workers) : TaskCheck(w)
    \/ \E w \in 1..Len(workers) : TaskWake(w)
    \/ \E w \in 1..Len(workers) : Take(w)

SpecCreate == InitFwd /\ [][NextCreate]_vars

\* ------------------------------------------------------ forwarding claims

Workers == 1..Len(workers)

\* The task of w recorded the instance handle of the reader it was created for.
TracksOwnReader(w) ==
    /\ workers[w].mode = "periodic"
    /\ workers[w].dds_ih # 0
    /\ workers[w].original_handle = workers[w].dds_ih

\* C1: a periodic task that recorded the instance handle of its reader R takes
\* (and then publishes) no sample through R's handle value once that value
\* belongs to another entity: every sample it holds arrived at R itself.
C1_NoTakeAfterRecycle ==
    \A w \in Workers :
        (TracksOwnReader(w) /\ workers[w].zp # NoZp) => workers[w].zp.owner = workers[w].dds_ih

\* The reader of w was deleted and its handle value now belongs to a newer reader.
Recycled(w) ==
    /\ IsAlive(workers[w].reader)
    /\ ents[workers[w].reader].kind = "reader"
    /\ ents[workers[w].reader].ih # workers[w].dds_ih

\* A task that tracks its own reader is about to publish a sample of the reader
\* that got the recycled handle value.
C1_StalePublish ==
    \E w \in Workers :
        /\ TracksOwnReader(w)
        /\ Recycled(w)
        /\ workers[w].pc = "put"
        /\ workers[w].zp.owner = ents[workers[w].reader].ih

BetweenSamples(w) == workers[w].pc \in {"start", "check", "sleep", "idle", "take", "done"}

\* C2 as stated: releases never exceed constructions, they are equal whenever no
\* sample is in hand, and a sample is released only after its publish attempt.
C2_ReleasedAfterPublish ==
    \A w \in Workers :
        /\ workers[w].released <= workers[w].constructed
        /\ BetweenSamples(w) => workers[w].released = workers[w].constructed
        /\ workers[w].released <= workers[w].attempts

C2_Counts ==
    \A w \in Workers :
        /\ workers[w].released <= workers[w].constructed
        /\ workers[w].constructed <= workers[w].released + 1
        /\ workers[w].constructed = workers[w].released + 1 <=> workers[w].pc = "made"
        /\ workers[w].pc = "put" => workers[w].released = workers[w].attempts + 1
        /\ workers[w].pc \notin {"made", "put"} =>
               /\ workers[w].released = workers[w].constructed
               /\ workers[w].attempts = workers[w].released
        /\ BetweenSamples(w) => workers[w].zp = NoZp

C2_Steps ==
    \A w \in Workers :
        LET a == workers[w]
            b == workers'[w]
        IN  /\ b.released # a.released =>
                   /\ b.released = a.released + 1
                   /\ a.pc = "made" /\ b.pc = "put"
                   /\ b.attempts = a.attempts
            /\ b.attempts # a.attempts =>
                   /\ b.attempts = a.attempts + 1
                   /\ b.released = a.released /\ b.released = b.constructed
            /\ b.constructed # a.constructed =>
                   /\ b.constructed = a.constructed + 1
                   /\ b.zp.valid_data /\ DDSRawSampleCreate(b.zp).ok
            /\ (a.pc = "take" /\ b.pc = "unref") =>
                   /\ ~(b.zp.valid_data /\ DDSRawSampleCreate(b.zp).ok)
                   /\ b.constructed = a.constructed /\ b.released = a.released
            /\ (b.zp # a.zp /\ b.zp # NoZp) => a.released = a.constructed

\* C2 (amended): a DDSRawSample constructed for a taken sample is released
\* exactly once, when put() converts it into the payload, that is before the
\* publish attempt and before the next sample is taken, whatever the publish
\* returns; a failed construction is followed by no release; releases never
\* exceed constructions and equal them whenever no sample is in hand.
C2_ReleasedOnceBeforePublish == []C2_Counts /\ [][C2_Steps]_vars

\* Two samples were published, the second publish failed, both were released.
C2_Witness ==
    \E w \in Workers :
        /\ workers[w].pc = "unref"
        /\ workers[w].zp.valid_data /\ DDSRawSampleCreate(workers[w].zp).ok
        /\ ~workers[w].published
        /\ workers[w].attempts = 2
        /\ workers[w].released = 2

CreateOps == {"create_forwarding_dds_reader", "create_forwarding_dds_writer"}

\* C8: a create operation returns Ok(h) only with h >= 0, the handle of the
\* entity it created, and returns Err whenever a native creation failed.
C8_OkOnlyForCreatedEntity ==
    result.op \in CreateOps =>
        /\ result.ok => result.value >= 0 /\ result.value = result.native
        /\ result.native < 0 => ~result.ok

\* The periodic mode returned Ok with the error code of dds_create_reader.
C8_OkWithErrorCode ==
    /\ result.op = "create_forwarding_dds_reader"
    /\ result.periodic
    /\ result.ok
    /\ result.value < 0

\* C9: no operation panics, whatever its input.
C9_NoPanic == ~panicked

\* The last operation created a writer that still exists.
WriterJustCreated ==
    /\ result.op = "create_forwarding_dds_writer"
    /\ result.ok
    /\ ents[result.value].kind = "writer"

\* C11: the writer gets the requested QoS, except that a requested BEST_EFFORT
\* reliability is applied as unset; an unset or RELIABLE reliability and the
\* history are applied as requested.
C11_WriterReliability ==
    WriterJustCreated =>
        /\ ents[result.value].qos.reliability =
               (IF result.qos.reliability = "BEST_EFFORT" THEN "None"
                ELSE result.qos.reliability)
        /\ ents[result.value].qos.history = result.qos.history

\* A writer asked for as BEST_EFFORT with a history of its own exists with an
\* unset reliability.
C11_Witness ==
    /\ WriterJustCreated
    /\ result.qos.reliability = "BEST_EFFORT"
    /\ result.qos.history = History("KEEP_LAST", 5)
    /\ ents[result.value].qos.reliability = "None"

\* C12 as stated: a delete of a value whose entity was deleted returns Ok(()).
C12_DeleteIdempotent ==
    (result.op = "delete_dds_entity" /\ ents[result.entity] = DeletedEntity) => result.ok

C12_Result ==
    result.op = "delete_dds_entity" =>
        /\ result.ok <=> result.retcode \in {"OK", "ALREADY_DELETED"}
        /\ ~result.ok => result.error = <<"Error deleting DDS entity - retcode=", result.retcode>>
        /\ ~IsAlive(result.entity)

C12_Step ==
    (result'.op = "delete_dds_entity" /\ result' # result) =>
        IF IsAlive(result'.entity)
        THEN /\ result'.ok
             /\ ents' = [ents EXCEPT ![result'.entity] = DeletedEntity]
        ELSE ents' = ents

\* What delete_dds_entity does guarantee: Ok(()) exactly when dds_delete returns
\* success or ALREADY_DELETED and Err with the return code otherwise; the delete of
\* a live entity returns Ok(()) and removes it; a delete of a value that has no
\* entity changes no native state, whatever it returns.
C12_OkIffDeletedOrGone == []C12_Result /\ [][C12_Step]_vars

\* The second delete of a deleted entity returned Err.
C12_SecondDeleteFails ==
    /\ result.op = "delete_dds_entity"
    /\ ents[result.entity] = DeletedEntity
    /\ result.retcode = "BAD_PARAMETER"
    /\ ~result.ok

\* A loan that cannot be serialized: RAW_DATA without from_sample, or another state.
LoanUnusable(zp) ==
    /\ zp.loan # "null"
    /\ zp.loan # "RAW_DATA" \/ ~zp.from_sample

C13_Skipped ==
    /\ \A sd \in AllSerdata :
          LoanUnusable(sd) => ~DDSRawSampleCreate(sd).ok /\ "raw" \notin DOMAIN DDSRawSampleCreate(sd)
    /\ \A w \in Workers :
          (workers[w].zp # NoZp /\ LoanUnusable(workers[w].zp)) =>
              /\ workers[w].pc = "unref"
              /\ workers[w].raw = NoRaw
              /\ workers[w].payload = <<>>
              /\ workers[w].constructed = workers[w].released

C13_Steps ==
    \A w \in Workers :
        LET a == workers[w]
            b == workers'[w]
        IN  /\ (a.zp = NoZp /\ b.zp # NoZp /\ LoanUnusable(b.zp)) =>
                   /\ b.constructed = a.constructed
                   /\ b.attempts = a.attempts
                   /\ b.puts = a.puts
            /\ (a.zp # NoZp /\ LoanUnusable(a.zp) /\ b # a) =>
                   /\ b.pc = "take"
                   /\ b.zp = NoZp
                   /\ b.attempts = a.attempts
                   /\ b.puts = a.puts

\* C13: DDSRawSample::create returns Err and no raw sample for a loan in RAW_DATA
\* state without from_sample and for a loan in any other state; the listener and
\* the periodic task then construct, release and publish nothing for that
\* sample and go on to take the next one.
C13_UnusableLoanSkipped == []C13_Skipped /\ [][C13_Steps]_vars

\* Both kinds of unusable loan were delivered and skipped, and the sample that
\* followed them was published.
C13_Witness ==
    \E w \in Workers :
        /\ Len(workers[w].delivered) = 3
        /\ workers[w].delivered[1].loan = "RAW_DATA" /\ ~workers[w].delivered[1].from_sample
        /\ workers[w].delivered[2].loan = "UNINITIALIZED"
        /\ Len(workers[w].puts) = 1

\* The samples the loops are to forward, and the bytes to publish for each.
Forwardable(zp) == zp.valid_data /\ ~LoanUnusable(zp)

SerializedForm(zp) == IF zp.loan = "null" THEN zp.data ELSE CdrHeader \o zp.sample_ptr

\* The delivered samples whose handling is complete.
Processed(w) ==
    IF workers[w].pc \in {"made", "put"}
    THEN SubSeq(workers[w].delivered, 1, Len(workers[w].delivered) - 1)
    ELSE workers[w].delivered

PayloadsDue(w) ==
    LET due == SelectSeq(Processed(w), Forwardable)
    IN  [i \in 1..Len(due) |-> SerializedForm(due[i])]

IsOk(put) == put.ok

\* C14 as stated: what reached the destination key is, in order, exactly the
\* delivered samples that are valid and whose construction succeeded.
C14_PublishedAllInOrder ==
    \A w \in Workers :
        LET arrived == SelectSeq(workers[w].puts, IsOk)
        IN  [i \in 1..Len(arrived) |-> arrived[i].payload] = PayloadsDue(w)

\* C14 (amended): the publish attempts of a forwarding reader are, in delivery
\* order and under its key, exactly the delivered samples that are valid and
\* whose construction succeeded; what reaches the destination is the
\* subsequence of the attempts that did not fail, so a sample whose publish
\* fails is missing too. A sample with valid_data false is never published.
C14_AttemptsInOrder ==
    \A w \in Workers :
        /\ [i \in 1..Len(workers[w].puts) |-> workers[w].puts[i].payload] = PayloadsDue(w)
        /\ \A i \in 1..Len(workers[w].puts) : workers[w].puts[i].key = workers[w].z_key

\* An invalid sample and two different valid ones were delivered; the two were
\* published in that order.
C14_Witness ==
    \E w \in Workers :
        /\ Len(workers[w].delivered) = 3
        /\ ~workers[w].delivered[1].valid_data
        /\ Len(workers[w].puts) = 2
        /\ workers[w].puts[1].payload = SdSerialized.data
        /\ workers[w].puts[2].payload = SdOther.data

\* ------------------------------------------- discovery claims, continued

\* C15: the context a discovery listener was registered with is never freed by
\* an invocation of on_data: the callback that reclaimed it at entry has handed
\* it back when it returns, so between invocations the listener owns it, and
\* it holds the discovery type and the sender it was registered with.
C15_ContextNeverFreed ==
    \A k \in DiscoveryType :
        /\ ctx[k].owner \in {"listener", "callback"}
        /\ ctx[k].owner = "callback" <=> cb[k].pc = "loop"
        /\ ctx[k].discovery_type = RunDiscovery[k].discovery_type
        /\ ctx[k].sender = RunDiscovery[k].sender

\* A later invocation: the one before it sent an event and returned, and the
\* callback runs again on the same context while another callback is running.
C15_Witness ==
    \E k \in DiscoveryType :
        /\ cb[k].pc = "loop"
        /\ last[k] = NoLast
        /\ nEmitted[k] > 0
        /\ ctx[k].owner = "callback"
        /\ \E j \in DiscoveryType \ {k} : cb[j].pc = "loop"

C16_Returned ==
    \A k \in DiscoveryType :
        /\ cb[k].pc = "loop" => ctx[k].loan_returns = 0
        /\ (cb[k].pc = "idle" /\ ctx[k].entered) => ctx[k].loan_returns = 1

C16_AtTheEnd ==
    \A k \in DiscoveryType :
        ctx'[k].loan_returns > ctx[k].loan_returns
            => /\ cb[k].pc = "loop"
               /\ cb[k].i > Len(cb[k].batch)
               /\ cb'[k].pc = "idle"

\* C16: every invocation of on_data gives the loaned buffers back exactly
\* once: not while samples of the batch are still to be handled, and once by
\* the time the callback has returned, whatever happened to each sample and
\* also when the take returned no sample or failed.
C16_LoansReturnedOnce == []C16_Returned /\ [][C16_AtTheEnd]_vars

\* A callback whose takes have all handed out nothing has returned with its
\* loans given back, while samples were presented to its reader.
C16_Witness ==
    \E k \in DiscoveryType :
        /\ cb[k].pc = "idle"
        /\ ctx[k].entered
        /\ observe
        /\ taken[k] = <<>>
        /\ pending[k] # <<>>
        /\ ctx[k].loan_returns = 1

\* An alive endpoint sample whose topic name or type name is not valid UTF-8.
Malformed(s) ==
    /\ s.instance_state = DDS_IST_ALIVE
    /\ ~IsUtf8(s.topic_name) \/ ~IsUtf8(s.type_name)

HandledSoFar(k) == SubSeq(cb[k].batch, 1, cb[k].i - 1)

\* C17: an alive endpoint sample whose topic name or type name is not valid
\* UTF-8 gets no event, and the callback goes on with the rest of the batch:
\* the events an invocation has passed to send_discovery_event are, in order,
\* the events of the samples it has handled with the malformed ones left out.
C17_MalformedSkipped ==
    \A k \in EndpointType :
        /\ (Handled(k) /\ Malformed(last[k].sample)) => last[k].event = NoEvent
        /\ cb[k].pc = "loop" =>
               cb[k].emitted =
                   Captured(k, SelectSeq(HandledSoFar(k), LAMBDA s : ~Malformed(s)))

\* The callback is past a malformed sample of its batch and has sent the
\* event of a sample that came after it.
C17_Witness ==
    \E k \in EndpointType :
        /\ cb[k].pc = "loop"
        /\ \E j \in 1..Len(HandledSoFar(k)) :
              /\ Malformed(cb[k].batch[j])
              /\ cb[k].batch[j].participant_instance_handle # OwnParticipant.ih
              /\ Captured(k, SubSeq(cb[k].batch, j + 1, cb[k].i - 1)) # <<>>
              /\ Len(cb[k].emitted) > Len(Captured(k, SubSeq(cb[k].batch, 1, j)))

\* The sample the callback handled last is an alive endpoint sample that no
\* filter discards.
AliveUnfiltered(k) ==
    /\ Handled(k)
    /\ last[k].sample.instance_state = DDS_IST_ALIVE
    /\ ShouldEmit(k, last[k].sample)

\* C18: an alive endpoint sample that no filter discards gets exactly one
\* Discovered event of its type whatever the lookup of its type descriptor
\* gave: the entity has a descriptor exactly when the lookup returned 0 with a
\* non-null descriptor, and none when it returned 0 with null or an error.
C18_DiscoveredWhateverTypeInfo ==
    \A k \in EndpointType :
        AliveUnfiltered(k) =>
            /\ last[k].event.type = "Discovered" \o k
            /\ cb[k].emitted = <<last[k].event>>
            /\ nEmitted[k] = 1
            /\ last[k].event.entity.type_info =
                   (IF last[k].sample.ti_ret = 0 /\ last[k].sample.ti_ptr # "null"
                    THEN "Some" ELSE NoTypeInfo)

\* The lookup returned 0 without a descriptor, and the sample was discovered
\* with no descriptor in its entity.
C18_Witness ==
    \E k \in EndpointType :
        /\ AliveUnfiltered(k)
        /\ last[k].sample.ti_ret = 0
        /\ last[k].sample.ti_ptr = "null"
        /\ last[k].event.type = "Discovered" \o k
        /\ last[k].event.entity.type_info = NoTypeInfo
        /\ last[k].sent

\* The sample the callback handled last did not come from the bridge itself.
NotSelfOriginated(k) ==
    /\ Handled(k)
    /\ IF k = "Participant" THEN last[k].sample.key # OwnGuid
       ELSE last[k].sample.participant_instance_handle # OwnParticipant.ih

\* The text is the lower-case hex encoding of the 16 bytes of the key.
IsHexOf(text, key) ==
    /\ Len(text) = 32
    /\ \A b \in 1..16 :
          \E hi, lo \in 0..15 :
              /\ text[2 * b - 1] = HexDigits[hi + 1]
              /\ text[2 * b] = HexDigits[lo + 1]
              /\ 16 * hi + lo = KeyBytes(key)[b]

\* C19: a sample that is not the bridge's own and whose instance state is not
\* ALIVE gets exactly one Undiscovered event of its type, which carries the
\* hex encoding of the 16-byte key and nothing else; an ALIVE sample that no
\* filter discards gets exactly one Discovered event whose entity's key is
\* that hex encoding.
C19_UndiscoveredByKey ==
    \A k \in DiscoveryType :
        NotSelfOriginated(k) =>
            IF last[k].sample.instance_state # DDS_IST_ALIVE
            THEN /\ last[k].event.type = "Undiscovered" \o k
                 /\ DOMAIN last[k].event = {"type", "key"}
                 /\ IsHexOf(last[k].event.key, last[k].sample.key)
                 /\ cb[k].emitted = <<last[k].event>>
                 /\ nEmitted[k] = 1
            ELSE ShouldEmit(k, last[k].sample) =>
                 /\ last[k].event.type = "Discovered" \o k
                 /\ DOMAIN last[k].event = {"type", "entity"}
                 /\ IsHexOf(last[k].event.entity.key, last[k].sample.key)
                 /\ cb[k].emitted = <<last[k].event>>
                 /\ nEmitted[k] = 1

\* An endpoint on a builtin topic with a malformed type name is no longer
\* alive: it is undiscovered by its key, which ends in 04.
C19_Witness ==
    \E k \in EndpointType :
        /\ NotSelfOriginated(k)
        /\ last[k].sample.instance_state = "NOT_ALIVE_DISPOSED"
        /\ last[k].sample.topic_name = TopicBuiltin
        /\ last[k].sample.type_name = TypeBadUtf8
        /\ last[k].event.type = "Undiscovered" \o k
        /\ SubSeq(last[k].event.key, 1, 2) = <<"0", "2">>
        /\ SubSeq(last[k].event.key, 29, 32) = <<"0", "3", "0", "4">>
        /\ chan = <<last[k].event>>

\* The event is one the listener of builtin reader k made from a sample it took.
ProducedBy(e, k) ==
    /\ e.type \in EventsOf(ctx[k].discovery_type)
    /\ \E i \in 1..Len(taken[k]) : OnSample(ctx[k].discovery_type, taken[k][i]) = e

\* C20: there is exactly one listener per discovery type, on the builtin
\* reader of that type, each with a context of its own and a sender of its own
\* on the one mailbox; every event a listener passes to send_discovery_event,
\* and so every event in the mailbox, is of the type of the listener that
\* produced it.
C20_KindMatchesListener ==
    /\ DOMAIN ctx = DiscoveryType
    /\ \A d \in DiscoveryType :
          /\ Cardinality({k \in DOMAIN ctx : ctx[k].discovery_type = d}) = 1
          /\ ctx[d].discovery_type = d
    /\ \A j, k \in DiscoveryType :
          /\ ctx[j].sender.channel = ctx[k].sender.channel
          /\ j # k => ctx[j].sender.handle # ctx[k].sender.handle
    /\ \A k \in DiscoveryType :
          /\ \A i \in 1..Len(cb[k].emitted) :
                cb[k].emitted[i].type \in EventsOf(ctx[k].discovery_type)
          /\ last[k].event # NoEvent => last[k].event.type \in EventsOf(ctx[k].discovery_type)
    /\ \A i \in 1..Len(chan) : \E k \in DiscoveryType : ProducedBy(chan[i], k)
    /\ \A i \in 1..Len(received) : \E k \in DiscoveryType : ProducedBy(received[i], k)

\* The consumer has received the event of one listener and the mailbox holds
\* the event of another, sent while the first callback was still running.
C20_Witness ==
    /\ Len(received) = 1
    /\ Len(chan) = 1
    /\ \E j, k \in DiscoveryType :
          /\ j # k
          /\ cb[j].pc = "loop"
          /\ cb[j].emitted = <<received[1]>>
          /\ ProducedBy(received[1], j)
          /\ cb[k].emitted = <<chan[1]>>
          /\ ProducedBy(chan[1], k)
          /\ chan[1].type \notin EventsOf(j)

\* C21: every failed put is followed by a log entry that names its zenoh key:
\* a worker has logged at least as many entries with its key as it has had
\* failed puts.
C21_PublishFailureLogged ==
    \A w \in Workers :
        Len(SelectSeq(workers[w].puts, LAMBDA p : ~p.ok))
            <= Len(SelectSeq(workers[w].warned, LAMBDA l : l.key = workers[w].z_key))

\* C21, the loop goes on: after a failed put the worker has released the
\* sample and is taking again (or at rest), and the samples that followed
\* were put in turn: every construction so far was followed by a put attempt.
C21_LoopGoesOn ==
    \A w \in Workers :
        /\ workers[w].pc \in {"take", "idle", "check", "sleep", "done"}
              => workers[w].attempts = workers[w].constructed
        /\ (workers[w].pc = "unref" /\ ~workers[w].published) => ENABLED Unref(w)

\* A put failed without a log entry, the sample was released, and the next
\* sample was taken and published.
C21_Witness ==
    \E w \in Workers :
        /\ Len(workers[w].puts) = 2
        /\ ~workers[w].puts[1].ok
        /\ workers[w].puts[2].ok
        /\ workers[w].warned = <<>>
        /\ workers[w].pc = "take"
        /\ workers[w].zp = NoZp

\* The last operation created a forwarding reader that exists.
ReaderJustCreated ==
    /\ result.op = "create_forwarding_dds_reader"
    /\ result.ok
    /\ result.value >= 0
    /\ IsAlive(result.value)
    /\ ents[result.value].kind = "reader"

\* The workers attached to the entity value e, by mode.
WorkersOf(e, mode) == {w \in Workers : workers[w].reader = e /\ workers[w].mode = mode}

\* C22: with a read period the native reader has history KEEP_LAST depth 1
\* whatever history was requested, every other QoS field as requested, and no
\* listener; without a period the reader has the requested QoS unchanged and
\* one data-available listener, and no periodic task.
C22_PeriodicKeepLast1 ==
    ReaderJustCreated =>
        IF result.periodic
        THEN /\ ents[result.value].qos.history = [kind |-> "KEEP_LAST", depth |-> 1]
             /\ ents[result.value].qos.reliability = result.qos.reliability
             /\ DOMAIN ents[result.value].qos = DOMAIN result.qos
             /\ WorkersOf(result.value, "listener") = {}
             /\ Cardinality(WorkersOf(result.value, "periodic")) = 1
        ELSE /\ ents[result.value].qos = result.qos
             /\ Cardinality(WorkersOf(result.value, "listener")) = 1
             /\ WorkersOf(result.value, "periodic") = {}

\* A periodic reader was asked with KEEP_ALL and BEST_EFFORT and has
\* KEEP_LAST 1 and BEST_EFFORT.
C22_Witness ==
    /\ ReaderJustCreated
    /\ result.periodic
    /\ result.qos.history.kind = "KEEP_ALL"
    /\ result.qos.reliability = "BEST_EFFORT"
    /\ ents[result.value].qos.history = [kind |-> "KEEP_LAST", depth |-> 1]
    /\ ents[result.value].qos.reliability = "BEST_EFFORT"

\* The last operation was a create_forwarding_dds_reader without read period.
EventDrivenCreate ==
    /\ result.op = "create_forwarding_dds_reader"
    /\ ~result.periodic

\* C23: in event-driven mode, when the native reader was created the
\* operation has waited for historical data exactly once, for at most 100 ms,
\* on that reader, and returns Ok(reader) whatever the wait returned; when
\* the reader (or its topic) was not created, it has not waited and returns Err.
C23_WaitOnceThenOk ==
    EventDrivenCreate =>
        IF result.native >= 0
        THEN /\ result.ok
             /\ result.value = result.native
             /\ Len(result.waits) = 1
             /\ result.waits[1].reader = result.native
             /\ result.waits[1].max_wait = 100
             /\ result.wait_error_logged <=> result.waits[1].res < 0
        ELSE /\ ~result.ok
             /\ result.waits = <<>>

\* The wait timed out, was logged, and the reader was returned.
C23_Witness ==
    /\ EventDrivenCreate
    /\ result.ok
    /\ result.value \in Slots
    /\ result.waits # <<>>
    /\ result.waits[1].res = -10
    /\ result.wait_error_logged
    /\ IsAlive(result.value)

\* C24: the handle a periodic task compares against is the instance handle of
\* the reader its create_forwarding_dds_reader created: once the task has
\* recorded it, it is that reader's, and every sample the task holds arrived
\* at that reader.
C24_TokenOfCreatedReader ==
    \A w \in Workers :
        (workers[w].mode = "periodic" /\ workers[w].dds_ih # 0) =>
            /\ workers[w].pc # "start" => workers[w].original_handle = workers[w].dds_ih
            /\ workers[w].zp # NoZp => workers[w].zp.owner = workers[w].dds_ih

\* The reader of a periodic task was deleted and its value reused before the
\* task first ran: the task recorded the handle of the new reader, found no
\* mismatch, and is publishing a sample of the new reader.
C24_AdoptsNewReader ==
    \E w \in Workers :
        /\ workers[w].mode = "periodic"
        /\ workers[w].dds_ih # 0
        /\ workers[w].original_handle \notin {0, workers[w].dds_ih}
        /\ IsAlive(workers[w].reader)
        /\ ents[workers[w].reader].ih = workers[w].original_handle
        /\ workers[w].pc = "put"
        /\ workers[w].zp.owner = workers[w].original_handle

\* The calls create_topic made in the last create operation, and what the
\* call that gives the topic handle returned.
CallNames(calls) == [i \in 1..Len(calls) |-> calls[i].call]

TopicHandle(calls) ==
    IF Len(calls) = 1 THEN calls[1].ret ELSE calls[2].ret

\* C25: create_topic resolves the descriptor (timeout 500 ms), creates the
\* topic from it and deletes the descriptor exactly when a type descriptor is
\* supplied, and creates no topic when the resolution fails; without a type
\* descriptor it creates a blob topic with the caller's keyless flag. It
\* returns Ok(handle) exactly when the handle it got is not negative, and
\* otherwise Err with the text of the native code.
C25_CreateTopic ==
    result.op \in CreateOps =>
        LET calls == result.topic_calls
            h == TopicHandle(calls)
        IN  /\ IF result.type_info = NoTypeInfo
               THEN /\ CallNames(calls) = <<"cdds_create_blob_topic">>
                    /\ calls[1].keyless = result.keyless
               ELSE /\ calls[1].call = "dds_create_topic_descriptor"
                    /\ calls[1].timeout = 500 * 1000000
                    /\ IF calls[1].ret = 0
                       THEN CallNames(calls) = <<"dds_create_topic_descriptor",
                                                 "dds_create_topic",
                                                 "dds_delete_topic_descriptor">>
                       ELSE Len(calls) = 1
            /\ result.topic.ok <=> h >= 0
            /\ result.topic.ok => result.topic.value = h
            /\ ~result.topic.ok =>
                   /\ result.topic.error = <<"Error creating DDS Topic: ", StrRetcode(-h)>>
                   /\ ~result.ok
                   /\ result.error = result.topic.error

\* The descriptor of a supplied type could not be resolved: no topic was
\* created and the error names the code of the resolution.
C25_Witness ==
    /\ result.op \in CreateOps
    /\ result.type_info # NoTypeInfo
    /\ Len(result.topic_calls) = 1
    /\ result.topic_calls[1].ret = -5
    /\ ~result.ok
    /\ result.error = <<"Error creating DDS Topic: ", "Out Of Resources">>
    /\ \A e \in Slots : ~IsAlive(e)

\* Native calls whose topic creation or descriptor lookup may fail, while the
\* endpoint creation that would follow succeeds.
TopicOutcomes == {nat \in NativeOutcomes : nat.wait = 0 /\ nat.entity \in Slots}

\* Readers and writers are created one after the other, some of them on a
\* topic that cannot be created, while the periodic tasks run.
NextConfine ==
    \/ \E type_info \in {NoTypeInfo, "ptr"} : \E read_period \in {NoPeriod, Period(100)} :
       \E nat \in TopicOutcomes :
          CreateForwardingDdsReader(TopicChatter, TypeString, type_info, FALSE, QosKeepAll,
                                    read_period, nat)
    \/ \E type_info \in {NoTypeInfo, "ptr"} : \E nat \in TopicOutcomes :
          CreateForwardingDdsWriter(TopicChatter, TypeString, type_info, FALSE, QosKeepAll, nat)
    \/ \E w \in 1..Len(workers) : TaskStart(w)
    \/ \E w \in 1..Len(workers) : TaskCheck(w)
    \/ \E w \in 1..Len(workers) : TaskWake(w)
    \/ \E w \in 1..Len(workers) : Take(w)

SpecConfine == InitFwd /\ [][NextConfine]_vars

C26_Step ==
    (/\ result' # result
     /\ result'.op \in CreateOps
     /\ TopicHandle(result'.topic_calls) < 0)
        => /\ ~result'.ok
           /\ ents' = ents
           /\ workers' = workers
           /\ nextIh' = nextIh

\* C26: a create operation whose topic cannot be created returns Err and
\* changes nothing: no native entity is created, no listener is attached, no
\* task is spawned, and the entities and tasks that exist stay as they are.
C26_TopicFailureConfined == [][C26_Step]_vars

\* A writer could not get its topic while a reader created before is alive
\* and its periodic task is asleep.
C26_Witness ==
    /\ result.op = "create_forwarding_dds_writer"
    /\ ~result.ok
    /\ TopicHandle(result.topic_calls) < 0
    /\ \E w \in Workers :
          /\ workers[w].mode = "periodic"
          /\ workers[w].pc = "sleep"
          /\ IsAlive(workers[w].reader)
          /\ ents[workers[w].reader].kind = "reader"
          /\ ents[workers[w].reader].ih = workers[w].dds_ih
    /\ Cardinality({e \in Slots : IsAlive(e)}) = 2

HeldBy(holder) == {i \in 1..Len(descriptors) : descriptors[i].holder = holder}

\* C27: a type descriptor made by on_data is a duplicate, never the
\* descriptor of the native discovery buffer, which is never freed; it is not
\* freed while its event is in the mailbox or its entity is with the
\* consumer, it is freed exactly once when the consumer destroys the entity or
\* when the send was refused by a full or closed mailbox, and never twice.
C27_DescriptorFreedOnce ==
    /\ \A i \in 1..Len(descriptors) :
          /\ descriptors[i].ptr = "dup"
          /\ descriptors[i].source_frees = 0
          /\ descriptors[i].frees <= 1
          /\ descriptors[i].holder \in {"mailbox", "consumer", "none"}
          /\ descriptors[i].holder \in {"mailbox", "consumer"} => descriptors[i].frees = 0
          /\ descriptors[i].holder = "none" => descriptors[i].frees = 1
    /\ Cardinality(HeldBy("mailbox"))
          = Len(SelectSeq(chan, LAMBDA e : CarriesTypeInfo(e)))
    /\ Cardinality(HeldBy("mailbox")) + Cardinality(HeldBy("consumer"))
          <= Len(SelectSeq(chan \o received, LAMBDA e : CarriesTypeInfo(e)))
    /\ \A k \in EndpointType :
          (CarriesTypeInfo(last[k].event) /\ ~last[k].sent) =>
              /\ descriptors # <<>>
              /\ descriptors[Len(descriptors)].holder = "none"
              /\ descriptors[Len(descriptors)].frees = 1

\* The mailbox was closed when the event of a discovered endpoint with a type
\* descriptor was sent: the event was dropped and its descriptor freed once.
C27_Witness ==
    \E k \in EndpointType :
        /\ ~rxOpen
        /\ CarriesTypeInfo(last[k].event)
        /\ last[k].refused
        /\ ~last[k].sent
        /\ Len(descriptors) = 1
        /\ descriptors[1].frees = 1
        /\ descriptors[1].source_frees = 0

\* The reader value of w holds a live entity whose instance handle is the
\* one the task recorded.
OriginalAlive(w) ==
    /\ IsAlive(workers[w].reader)
    /\ ents[workers[w].reader].ih = workers[w].original_handle

\* dds_takecdr on the reader value of w would hand out a sample.
HasSample(w) ==
    /\ IsAlive(workers[w].reader)
    /\ ents[workers[w].reader].kind = "reader"
    /\ ents[workers[w].reader].queue # <<>>

C28_NotDoneWhileAlive ==
    \A w \in Workers :
        (workers[w].mode = "periodic" /\ workers[w].pc = "done") => ~OriginalAlive(w)

C28_Tick ==
    \A w \in Workers :
        (workers[w].mode = "periodic" /\ workers'[w].pc # workers[w].pc) =>
            CASE workers[w].pc = "start" -> workers'[w].pc = "check"
              [] workers[w].pc = "check" ->
                    IF OriginalAlive(w) THEN workers'[w].pc = "sleep"
                    ELSE workers'[w].pc = "done"
              [] workers[w].pc = "sleep" -> workers'[w].pc = "take"
              [] workers[w].pc = "take" ->
                    IF HasSample(w) THEN workers'[w].pc \in {"made", "unref"}
                    ELSE workers'[w].pc = "check"
              [] workers[w].pc = "made" -> workers'[w].pc = "put"
              [] workers[w].pc = "put" -> workers'[w].pc = "unref"
              [] workers[w].pc = "unref" -> workers'[w].pc = "take"
              [] OTHER -> FALSE

\* C28: a periodic task whose reader value holds the entity with the recorded
\* instance handle never ends; each tick is the check, one sleep, and one
\* drain that goes back to the check only when the take gives no sample; the
\* task ends only at the check, when the lookup fails or gives another handle,
\* and once ended it stays ended.
C28_PeriodicLoop == []C28_NotDoneWhileAlive /\ [][C28_Tick]_vars

\* A task in its second tick or later: it has published a sample, found its
\* reader unchanged and sleeps again; another task has ended.
C28_Witness ==
    \E w, v \in Workers :
        /\ workers[w].mode = "periodic"
        /\ workers[w].pc = "sleep"
        /\ workers[w].attempts = 1
        /\ OriginalAlive(w)
        /\ workers[v].mode = "periodic"
        /\ workers[v].pc = "done"
        /\ workers[v].original_handle # 0

\* C29: every reference a take handed out is given back exactly once, in
\* turn: the references given back are the samples delivered so far, but for
\* the one the worker is holding, and the worker holds none when it takes
\* again; a take without sample gives back nothing.
C29_UnrefOncePerTake ==
    \A w \in Workers :
        /\ workers[w].delivered =
              workers[w].unreffed \o (IF workers[w].zp = NoZp THEN <<>> ELSE <<workers[w].zp>>)
        /\ workers[w].pc \in {"take", "idle", "check", "sleep", "start", "done"}
              => workers[w].zp = NoZp
        /\ workers[w].pc \in {"made", "put", "unref"} => workers[w].zp # NoZp

\* A worker has given back an invalid sample, a sample whose construction
\* failed and a sample it published, and an empty take has sent it to rest.
C29_Witness ==
    \E w \in Workers :
        /\ Len(workers[w].unreffed) = 3
        /\ \E i, j, k \in 1..3 :
              /\ ~workers[w].unreffed[i].valid_data
              /\ workers[w].unreffed[j].valid_data
              /\ ~DDSRawSampleCreate(workers[w].unreffed[j]).ok
              /\ workers[w].unreffed[k].valid_data
              /\ DDSRawSampleCreate(workers[w].unreffed[k]).ok
        /\ Len(workers[w].puts) = 1
        /\ workers[w].delivered = workers[w].unreffed
        /\ workers[w].pc \in {"idle", "check"}

\* C30: when a create operation has returned, every native QoS object it
\* allocated has been deleted exactly once.
C30_QosNativeDeleted ==
    result.op \in CreateOps => result.qos_native.deleted = result.qos_native.allocated

\* The event-driven branch and the writer delete their QoS object once,
\* whether the endpoint was created or not.
C30_DeletedOutsidePeriodic ==
    (result.op \in CreateOps /\ result.topic.ok
        /\ ~(result.op = "create_forwarding_dds_reader" /\ result.periodic))
        => result.qos_native = [allocated |-> 1, deleted |-> 1]

\* A periodic reader was created and returned while its native QoS object
\* is still allocated.
C30_PeriodicLeak ==
    /\ result.op = "create_forwarding_dds_reader"
    /\ result.periodic
    /\ result.ok
    /\ result.value \in Slots
    /\ result.qos_native.allocated = 1
    /\ result.qos_native.deleted = 0

\* The last operation created its topic and then failed to create its
\* reader or writer.
EndpointCreationFailed ==
    /\ result.op \in CreateOps
    /\ ~result.ok
    /\ result.topic.ok
    /\ result.native < 0

\* C31: when the creation of the reader or writer fails after the topic was
\* created, the operation that returns Err leaves no native entity of its
\* own: the topic it created is not alive.
C31_NoTopicLeftBehind ==
    EndpointCreationFailed => ~IsAlive(result.topic.value)

\* A create operation returned Err for its endpoint, and the topic it
\* created is the only entity alive.
C31_TopicLeftAlive ==
    /\ EndpointCreationFailed
    /\ IsAlive(result.topic.value)
    /\ ents[result.topic.value].kind = "topic"
    /\ {e \in Slots : IsAlive(e)} = {result.topic.value}
    /\ workers = <<>>

====
